---- MODULE Spec2Model ----
(***************************************************************************)
(* Model of the imageflow persistence layer: the in-memory backend         *)
(* (MockDynamoDBService), the durable single-table backend                 *)
(* (DynamoDBService) and the scan-based backend (SimpleDynamoDBService).   *)
(* The three backends are driven in lockstep by the same operations, with  *)
(* the same inputs, generated identifiers and clock readings, so that      *)
(* their results can be compared.                                          *)
(*                                                                         *)
(* Strings that are built, compared or sorted by the code (keys, sort      *)
(* keys, identifiers, ISO timestamps) are sequences of character codes.    *)
(* Opaque texts (titles, entity_type tags, error names) are TLA+ strings.  *)
(***************************************************************************)
EXTENDS Integers, Sequences, FiniteSets

VARIABLES
    clock,    \* the reading datetime.now() would give, in ticks
    data,     \* MockDynamoDBService.data: insertion-ordered dict, key -> item
    table,    \* the DynamoDBService table: a set of items keyed by (PK, SK)
    simple,   \* the SimpleDynamoDBService table: a set of items keyed by id
    req,      \* the last operation called and its arguments
    ret,      \* what that operation returned, per backend
    pc,       \* per concurrent caller: position inside increment_link_access
    sent,     \* per concurrent caller: its update_item request on the way
    issued    \* the link identifiers create_shareable_link has returned, each
              \* with the expiration_days it was asked for

vars == <<clock, data, table, simple, req, ret, pc, sent, issued>>

(***************************************************************************)
(* Bounds of the model.                                                    *)
(***************************************************************************)
\* Ticks per second: the sub-second part of a timestamp counts 0..SubSec-1.
SubSec == 2
\* Ticks per day (timedelta(days=1)).
DayTicks == 2
\* The clock starts at 9.0 s so that the seconds roll over from 9 to 10.
ClockStart == 18
\* Number of ticks the clock may advance.
MaxTicks == 2
\* Number of user identifiers the identity collaborator can supply.
NumUserIds == 2
\* Rows per kind in the specification of creates, updates and reads.
CrudUsers == 1
CrudPhotos == 1
\* Size of the pool generate_uuid draws from in that specification.
CrudUuids == 1
\* Rows per kind in the specification of the list operations.
ListPhotos == 2
ListComments == 2
\* Rows of the other kind in each of the two specifications of the lists.
ListOtherRows == 1
\* Size of the pool generate_uuid draws from in that specification.
ListUuids == 3
\* Largest limit a caller passes to a list operation.
MaxLimit == 2
\* Share links in the specification of share links.
MaxLinks == 1
\* Size of the pool generate_uuid draws from in that specification.
LinkUuids == 1
\* Largest expiration_days asked for.
MaxDays == 1
\* Ticks the clock may advance between the two readings of one create.
MaxGap == 1
\* Number of ticks the clock may advance in that specification.
LinkTicks == 4
\* Number of concurrent callers of increment_link_access.
NumCallers == 2
\* Number of ticks the clock may advance while they call.
IncTicks == 2
SharePhotos == 1
ShareLinks == 1
DelPhotos == 1
DelComments == 1
DelLinks == 1
DelUuids == 3
ProfTicks == 2
ComPhotos == 1
ComComments == 1
FailTicks == 2
FailPhotos == 1
RoutePhotos == 1
UploadPhotos == 1
AtomUuids == 2
CreateRows == 4
CreateUuids == 4
IndexRows == 1
IndexUuids == 4
\* src/config.py: DEFAULT_LINK_EXPIRATION_DAYS (and the literal 30 of the mock)
DEFAULT_LINK_EXPIRATION_DAYS == 30

MaxClock == ClockStart + MaxTicks

(***************************************************************************)
(* Strings as sequences of character codes.                                *)
(***************************************************************************)
Min(a, b) == IF a <= b THEN a ELSE b

Max(a, b) == IF a >= b THEN a ELSE b

\* Python's None where a string is expected.
None == <<0>>

\* str.startswith / DynamoDB begins_with
StartsWith(s, p) == Len(s) >= Len(p) /\ SubSeq(s, 1, Len(p)) = p

\* s < t in code-point (byte) order, as Python's str comparison and
\* DynamoDB's ordering of string sort keys.
StrLess(s, t) ==
    \E i \in 1..(Min(Len(s), Len(t)) + 1) :
        /\ \A j \in 1..(i - 1) : s[j] = t[j]
        /\ \/ i > Len(s) /\ i <= Len(t)
           \/ i <= Len(s) /\ i <= Len(t) /\ s[i] < t[i]

StrLeq(s, t) == s = t \/ StrLess(s, t)

S_USER == <<85, 83, 69, 82, 35>>                                \* "USER#"
S_PHOTO == <<80, 72, 79, 84, 79, 35>>                           \* "PHOTO#"
S_COMMENT == <<67, 79, 77, 77, 69, 78, 84, 35>>                 \* "COMMENT#"
S_SHARE_LINK == <<83, 72, 65, 82, 69, 95, 76, 73, 78, 75, 35>>  \* "SHARE_LINK#"
S_LINK == <<76, 73, 78, 75, 35>>                                \* "LINK#"
S_USERS == <<85, 83, 69, 82, 83>>                               \* "USERS"
S_PHOTOS == <<80, 72, 79, 84, 79, 83>>                          \* "PHOTOS"

Digit(d) == 48 + d

\* The identifiers uuid4 can generate: "a", "b", "c", ...
UuidPool(n) == { <<96 + i>> : i \in 1..n }

\* The user identifiers the identity collaborator supplies: "x", "y", ...
UserIds == { <<119 + i>> : i \in 1..NumUserIds }

(***************************************************************************)
(* Timestamps.  A datetime is a tick count; isoformat() renders it with    *)
(* zero-padded seconds and leaves the fraction out when it is zero.        *)
(***************************************************************************)
\* datetime.isoformat()
Isoformat(t) ==
    LET s == t \div SubSec
        f == t % SubSec
        whole == <<Digit(s \div 100), Digit((s \div 10) % 10), Digit(s % 10)>>
    IN  IF f = 0 THEN whole ELSE whole \o <<46, Digit(f)>>

\* datetime.fromisoformat()
Fromisoformat(str) ==
    LET s == (str[1] - 48) * 100 + (str[2] - 48) * 10 + (str[3] - 48)
        f == IF Len(str) > 3 THEN str[5] - 48 ELSE 0
    IN  s * SubSec + f

\* timedelta(days=d), in ticks
Timedelta(days) == days * DayTicks

(***************************************************************************)
(* Python dict access and results of a call.                               *)
(***************************************************************************)
\* dict.get(k, default)
Get(d, k, default) == IF k \in DOMAIN d THEN d[k] ELSE default

\* dict.update(updates) on an item
Merge(item, updates) ==
    [f \in (DOMAIN item) \cup (DOMAIN updates) |->
        IF f \in DOMAIN updates THEN updates[f] ELSE item[f]]

Some(v) == [tag |-> "some", val |-> v]

NoneVal == [tag |-> "none"]

Raise(e) == [tag |-> "raise", err |-> e]

(***************************************************************************)
(* The in-memory dict: a sequence of (key, item) in insertion order.       *)
(***************************************************************************)
DictHas(d, k) == \E i \in 1..Len(d) : d[i].key = k

DictIdx(d, k) == CHOOSE i \in 1..Len(d) : d[i].key = k

DictGet(d, k) == d[DictIdx(d, k)].item

\* d[k] = v: a new key goes last, an existing key keeps its place
DictSet(d, k, v) ==
    IF DictHas(d, k)
    THEN [d EXCEPT ![DictIdx(d, k)] = [key |-> k, item |-> v]]
    ELSE Append(d, [key |-> k, item |-> v])

\* d.get(k)
DictLookup(d, k) == IF DictHas(d, k) THEN Some(DictGet(d, k)) ELSE NoneVal

DictKeys(d) == { d[i].key : i \in 1..Len(d) }

(***************************************************************************)
(* The DynamoDB table operations the durable backends call.                *)
(***************************************************************************)
\* table.put_item(Item=item) on the (PK, SK) table
DynPutItem(tbl, item) ==
    { x \in tbl : ~(x.PK = item.PK /\ x.SK = item.SK) } \cup {item}

DynHas(tbl, pk, sk) == \E x \in tbl : x.PK = pk /\ x.SK = sk

DynItem(tbl, pk, sk) == CHOOSE x \in tbl : x.PK = pk /\ x.SK = sk

\* table.get_item(Key={'PK': pk, 'SK': sk}).get('Item')
DynGetItem(tbl, pk, sk) ==
    IF DynHas(tbl, pk, sk) THEN Some(DynItem(tbl, pk, sk)) ELSE NoneVal

\* table.update_item(Key=..., UpdateExpression='SET ...'): the item after the
\* update; an absent key is created with the key and the SET attributes.
DynUpdatedItem(tbl, pk, sk, sets) ==
    IF DynHas(tbl, pk, sk)
    THEN Merge(DynItem(tbl, pk, sk), sets)
    ELSE Merge([PK |-> pk, SK |-> sk], sets)

\* table.put_item(Item=item) on the table keyed by id
SimplePutItem(tbl, item) == { x \in tbl : x.id # item.id } \cup {item}

SimpleHas(tbl, id) == \E x \in tbl : x.id = id

SimpleItem(tbl, id) == CHOOSE x \in tbl : x.id = id

\* table.get_item(Key={'id': id}).get('Item')
SimpleGetItem(tbl, id) ==
    IF SimpleHas(tbl, id) THEN Some(SimpleItem(tbl, id)) ELSE NoneVal

\* table.update_item(Key={'id': id}, UpdateExpression='SET ...')
SimpleUpdatedItem(tbl, id, sets) ==
    IF SimpleHas(tbl, id)
    THEN Merge(SimpleItem(tbl, id), sets)
    ELSE Merge([id |-> id], sets)

\* The items of a dict restricted to the keys in S
Restrict(d, S) == [k \in (DOMAIN d) \cap S |-> d[k]]

\* user_data.get('id') or generate_uuid()
IdOr(user_data, uuid) ==
    IF "id" \in DOMAIN user_data /\ user_data["id"] # None /\ user_data["id"] # <<>>
    THEN user_data["id"]
    ELSE uuid

(***************************************************************************)
(* Inputs.                                                                 *)
(***************************************************************************)
\* Texts are short: "A" stands for a first name, "S" for a title, and so on.
\* The user the specification of creates and updates is about: "x"
CrudUserIds == { <<120>> }

UserInputs == { [id |-> <<120>>, first_name |-> <<65>>], [email |-> <<101>>] }

UserUpdates == { [first_name |-> <<66>>], [email |-> <<102>>, last_name |-> <<76>>] }

PhotoInputs ==
    { [user_id |-> <<120>>, title |-> <<83>>, file_path |-> <<47, 97>>],
      [user_id |-> <<121>>, file_path |-> <<47, 98>>, description |-> <<68>>] }

PhotoUpdates ==
    { [title |-> <<84>>],
      [description |-> <<108>>, metadata |-> << <<107, 118>> >>],
      [user_id |-> <<122>>, file_size |-> 7] }

\* item.get('type'): the type attribute of a row of the table keyed by id
TypeOf(x) == Get(x, "type", "")

\* The identifier inside a key of the in-memory dict: what follows the '#'
IdOfKey(key) ==
    LET i == CHOOSE i \in 1..Len(key) : key[i] = 35 /\ \A j \in 1..(i - 1) : key[j] # 35
    IN  SubSeq(key, i + 1, Len(key))

\* Every identifier generated so far: those of the rows the scan-based table
\* holds and those of the in-memory dict, which keeps what a delete_photo of
\* the scan-based backend has removed.
UsedIds == { x.id : x \in simple } \cup { IdOfKey(data[i].key) : i \in 1..Len(data) }

\* An identifier that may have been generated before
RepeatedUuids(n) == UuidPool(n)

\* generate_uuid() / str(uuid.uuid4()): an identifier not generated before
FreshUuids(n) == UuidPool(n) \ UsedIds

(***************************************************************************)
(* User operations.                                                        *)
(***************************************************************************)
\* MockDynamoDBService.create_user: the item stored under USER#<user_id>
MockUserItem(user_data, user_id, timestamp) ==
    [ entity_type |-> "USER",
      user_id |-> user_id,
      email |-> Get(user_data, "email", None),
      first_name |-> Get(user_data, "first_name", None),
      last_name |-> Get(user_data, "last_name", None),
      profile_image_url |-> Get(user_data, "profile_image_url", None),
      created_at |-> timestamp,
      updated_at |-> timestamp ]

\* DynamoDBService.create_user: the item put
DynUserItem(user_data, user_id, timestamp) ==
    Merge(MockUserItem(user_data, user_id, timestamp),
          [ PK |-> S_USER \o user_id,
            SK |-> S_USER \o user_id,
            GSI1PK |-> S_USERS,
            GSI1SK |-> timestamp ])

\* SimpleDynamoDBService.create_user: the item put
SimpleUserItem(user_data, user_id, timestamp) ==
    [ id |-> user_id,
      type |-> "USER",
      user_id |-> user_id,
      email |-> Get(user_data, "email", None),
      first_name |-> Get(user_data, "first_name", None),
      last_name |-> Get(user_data, "last_name", None),
      profile_image_url |-> Get(user_data, "profile_image_url", None),
      created_at |-> timestamp,
      updated_at |-> timestamp ]

\* SimpleDynamoDBService.get_user: a demo user, whatever the table holds
SimpleGetUser(user_id, now) ==
    [ id |-> user_id,
      user_id |-> user_id,
      first_name |-> <<68>>,
      last_name |-> <<85>>,
      email |-> <<100>>,
      created_at |-> Isoformat(now) ]

MockGetUser(d, user_id) == DictLookup(d, S_USER \o user_id)

DynGetUser(tbl, user_id) == DynGetItem(tbl, S_USER \o user_id, S_USER \o user_id)

GetUser(user_id) ==
    /\ req' = [op |-> "get_user", user_id |-> user_id]
    /\ ret' = [ mock |-> MockGetUser(data, user_id),
                dyn |-> DynGetUser(table, user_id),
                simple |-> Some(SimpleGetUser(user_id, clock)) ]
    /\ UNCHANGED <<clock, data, table, simple, pc, sent, issued>>

CreateUser(user_data, uuid) ==
    LET user_id == IdOr(user_data, uuid)
        timestamp == Isoformat(clock)
    IN  /\ data' = DictSet(data, S_USER \o user_id, MockUserItem(user_data, user_id, timestamp))
        /\ table' = DynPutItem(table, DynUserItem(user_data, user_id, timestamp))
        /\ simple' = SimplePutItem(simple, SimpleUserItem(user_data, user_id, timestamp))
        /\ req' = [op |-> "create_user", user_data |-> user_data]
        /\ ret' = [ mock |-> Some(MockUserItem(user_data, user_id, timestamp)),
                    dyn |-> Some(DynUserItem(user_data, user_id, timestamp)),
                    simple |-> Some(SimpleUserItem(user_data, user_id, timestamp)) ]
        /\ UNCHANGED <<clock, pc, sent, issued>>

\* The updated_at an update writes: datetime.now().isoformat()
UpdateStamp(now) == Isoformat(now)

\* An update that replaces the item by the given fields instead of merging them.
MockUpdatedReplace(item, updates, now) ==
    Merge(updates, [updated_at |-> UpdateStamp(now)])

\* An update that merges the fields and leaves updated_at as it was.
MockUpdatedNoStamp(item, updates, now) == Merge(item, updates)

\* MockDynamoDBService.update_user / update_photo: update(updates), then updated_at
MockUpdated(item, updates, now) ==
    Merge(Merge(item, updates), [updated_at |-> UpdateStamp(now)])

\* DynamoDBService.update_user: the SET attributes
DynUpdateSets(updates, now) == Merge(updates, [updated_at |-> UpdateStamp(now)])

UpdateUser(user_id, updates) ==
    LET key == S_USER \o user_id
        pk == S_USER \o user_id
        dynNew == DynUpdatedItem(table, pk, pk, DynUpdateSets(updates, clock))
    IN  /\ IF DictHas(data, key)
           THEN data' = DictSet(data, key, MockUpdated(DictGet(data, key), updates, clock))
           ELSE data' = data
        /\ table' = DynPutItem(table, dynNew)
        /\ simple' = simple
        /\ req' = [op |-> "update_user", user_id |-> user_id, updates |-> updates]
        /\ ret' = [ mock |-> IF DictHas(data, key)
                             THEN Some(MockUpdated(DictGet(data, key), updates, clock))
                             ELSE Raise("KeyError"),
                    dyn |-> Some(dynNew),
                    simple |-> Some(MockUpdated(SimpleGetUser(user_id, clock), updates, clock)) ]
        /\ UNCHANGED <<clock, pc, sent, issued>>

(***************************************************************************)
(* Photo operations.                                                       *)
(***************************************************************************)
\* MockDynamoDBService.create_photo: the item stored under PHOTO#<photo_id>
MockPhotoItem(photo_data, photo_id, timestamp) ==
    [ entity_type |-> "PHOTO",
      photo_id |-> photo_id,
      user_id |-> photo_data["user_id"],
      title |-> Get(photo_data, "title", <<>>),
      description |-> Get(photo_data, "description", <<>>),
      file_path |-> photo_data["file_path"],
      file_size |-> Get(photo_data, "file_size", 0),
      content_type |-> Get(photo_data, "content_type", <<>>),
      metadata |-> Get(photo_data, "metadata", <<>>),
      created_at |-> timestamp,
      updated_at |-> timestamp ]

\* DynamoDBService.create_photo: the item put
DynPhotoItem(photo_data, photo_id, timestamp) ==
    Merge(MockPhotoItem(photo_data, photo_id, timestamp),
          [ PK |-> S_PHOTO \o photo_id,
            SK |-> S_PHOTO \o photo_id,
            GSI1PK |-> S_USER \o photo_data["user_id"],
            GSI1SK |-> S_PHOTO \o timestamp,
            GSI2PK |-> S_PHOTOS,
            GSI2SK |-> timestamp ])

\* SimpleDynamoDBService.create_photo: the item put
SimplePhotoItem(photo_data, photo_id, timestamp) ==
    [ id |-> photo_id,
      type |-> "PHOTO",
      photo_id |-> photo_id,
      user_id |-> photo_data["user_id"],
      title |-> Get(photo_data, "title", <<>>),
      description |-> Get(photo_data, "description", <<>>),
      file_path |-> photo_data["file_path"],
      file_size |-> Get(photo_data, "file_size", 0),
      content_type |-> Get(photo_data, "content_type", <<>>),
      metadata |-> Get(photo_data, "metadata", <<>>),
      created_at |-> timestamp,
      updated_at |-> timestamp ]

\* The photo key written with the tag of the users
MockPhotoKeyAsUser(photo_id) == S_USER \o photo_id

\* A key without its kind prefix.
MockPhotoKeyBare(photo_id) == photo_id

\* The key create_photo stores the item under
MockPhotoKey(photo_id) == S_PHOTO \o photo_id

MockGetPhoto(d, photo_id) == DictLookup(d, S_PHOTO \o photo_id)

DynGetPhoto(tbl, photo_id) == DynGetItem(tbl, S_PHOTO \o photo_id, S_PHOTO \o photo_id)

SimpleGetPhoto(tbl, photo_id) == SimpleGetItem(tbl, photo_id)

\* Number of rows of a kind (all three stores hold the same entities)
NumRows(kind) == Cardinality({ x \in simple : TypeOf(x) = kind })

CreatePhoto(photo_data, photo_id) ==
    LET timestamp == Isoformat(clock)
    IN  /\ data' = DictSet(data, MockPhotoKey(photo_id),
                           MockPhotoItem(photo_data, photo_id, timestamp))
        /\ table' = DynPutItem(table, DynPhotoItem(photo_data, photo_id, timestamp))
        /\ simple' = SimplePutItem(simple, SimplePhotoItem(photo_data, photo_id, timestamp))
        /\ req' = [op |-> "create_photo", photo_data |-> photo_data]
        /\ ret' = [ mock |-> Some(MockPhotoItem(photo_data, photo_id, timestamp)),
                    dyn |-> Some(DynPhotoItem(photo_data, photo_id, timestamp)),
                    simple |-> Some(SimplePhotoItem(photo_data, photo_id, timestamp)) ]
        /\ UNCHANGED <<clock, pc, sent, issued>>

GetPhoto(photo_id) ==
    /\ req' = [op |-> "get_photo", photo_id |-> photo_id]
    /\ ret' = [ mock |-> MockGetPhoto(data, photo_id),
                dyn |-> DynGetPhoto(table, photo_id),
                simple |-> SimpleGetPhoto(simple, photo_id) ]
    /\ UNCHANGED <<clock, data, table, simple, pc, sent, issued>>

\* SimpleDynamoDBService.update_photo: allowed_fields
AllowedFields == {"title", "description", "metadata"}

\* SimpleDynamoDBService.update_photo: filtered_updates
FilteredUpdates(updates) == Restrict(updates, AllowedFields)

UpdatePhoto(photo_id, updates) ==
    LET key == S_PHOTO \o photo_id
        filtered == FilteredUpdates(updates)
        simpleNew == SimpleUpdatedItem(simple, photo_id, DynUpdateSets(filtered, clock))
    IN  /\ IF DictHas(data, key)
           THEN data' = DictSet(data, key, MockUpdated(DictGet(data, key), updates, clock))
           ELSE data' = data
        /\ table' = table
        /\ IF DOMAIN filtered = {}
           THEN simple' = simple
           ELSE simple' = SimplePutItem(simple, simpleNew)
        /\ req' = [op |-> "update_photo", photo_id |-> photo_id, updates |-> updates]
        /\ ret' = [ mock |-> IF DictHas(data, key)
                             THEN Some(MockUpdated(DictGet(data, key), updates, clock))
                             ELSE Raise("KeyError"),
                    dyn |-> Raise("AttributeError"),
                    simple |-> IF DOMAIN filtered = {}
                               THEN IF SimpleHas(simple, photo_id)
                                    THEN Some(SimpleItem(simple, photo_id))
                                    ELSE Raise("ValueError")
                               ELSE Some(simpleNew) ]
        /\ UNCHANGED <<clock, pc, sent, issued>>

(***************************************************************************)
(* Comment operations.                                                     *)
(***************************************************************************)
\* MockDynamoDBService.create_comment: the item stored under COMMENT#<comment_id>
MockCommentItem(comment_data, comment_id, timestamp) ==
    [ entity_type |-> "COMMENT",
      comment_id |-> comment_id,
      photo_id |-> comment_data["photo_id"],
      user_id |-> comment_data["user_id"],
      content |-> comment_data["content"],
      created_at |-> timestamp,
      updated_at |-> timestamp ]

\* The sort key of a comment row: COMMENT#<comment_id>
DynCommentSK(comment_id, timestamp) == S_COMMENT \o comment_id

\* DynamoDBService.create_comment: the item put
DynCommentItem(comment_data, comment_id, timestamp) ==
    Merge(MockCommentItem(comment_data, comment_id, timestamp),
          [ PK |-> S_PHOTO \o comment_data["photo_id"],
            SK |-> DynCommentSK(comment_id, timestamp),
            GSI1PK |-> S_USER \o comment_data["user_id"],
            GSI1SK |-> S_COMMENT \o timestamp ])

\* SimpleDynamoDBService.create_comment: the item put
SimpleCommentItem(comment_data, comment_id, timestamp) ==
    [ id |-> comment_id,
      type |-> "COMMENT",
      comment_id |-> comment_id,
      photo_id |-> comment_data["photo_id"],
      user_id |-> comment_data["user_id"],
      content |-> comment_data["content"],
      created_at |-> timestamp,
      updated_at |-> timestamp ]

CreateComment(comment_data, comment_id) ==
    LET timestamp == Isoformat(clock)
    IN  /\ data' = DictSet(data, S_COMMENT \o comment_id,
                           MockCommentItem(comment_data, comment_id, timestamp))
        /\ table' = DynPutItem(table, DynCommentItem(comment_data, comment_id, timestamp))
        /\ simple' = SimplePutItem(simple, SimpleCommentItem(comment_data, comment_id, timestamp))
        /\ req' = [op |-> "create_comment", comment_data |-> comment_data]
        /\ ret' = [ mock |-> Some(MockCommentItem(comment_data, comment_id, timestamp)),
                    dyn |-> Some(DynCommentItem(comment_data, comment_id, timestamp)),
                    simple |-> Some(SimpleCommentItem(comment_data, comment_id, timestamp)) ]
        /\ UNCHANGED <<clock, pc, sent, issued>>

(***************************************************************************)
(* Sorting, slicing and the ways DynamoDB can order what it returns.       *)
(***************************************************************************)
\* seq[:limit]
Slice(seq, limit) ==
    SubSeq(seq, 1, IF limit < 0 THEN Max(0, Len(seq) + limit) ELSE Min(limit, Len(seq)))

\* x.get('created_at', '')
CreatedAt(x) == Get(x, "created_at", <<>>)

\* x inserted into a list sorted by descending created_at, after its equals
InsertDesc(sorted, x) ==
    LET before == { i \in 1..Len(sorted) : StrLeq(CreatedAt(x), CreatedAt(sorted[i])) }
        n == Cardinality(before)
    IN  SubSeq(sorted, 1, n) \o <<x>> \o SubSeq(sorted, n + 1, Len(sorted))

\* x inserted into a list sorted by ascending created_at, after its equals
InsertAsc(sorted, x) ==
    LET before == { i \in 1..Len(sorted) : StrLeq(CreatedAt(sorted[i]), CreatedAt(x)) }
        n == Cardinality(before)
    IN  SubSeq(sorted, 1, n) \o <<x>> \o SubSeq(sorted, n + 1, Len(sorted))

RECURSIVE SortDesc(_)
\* list.sort(key=created_at, reverse=True): stable
SortDesc(seq) ==
    IF seq = <<>> THEN <<>>
    ELSE InsertDesc(SortDesc(SubSeq(seq, 1, Len(seq) - 1)), seq[Len(seq)])

RECURSIVE SortAsc(_)
\* list.sort(key=created_at): stable
SortAsc(seq) ==
    IF seq = <<>> THEN <<>>
    ELSE InsertAsc(SortAsc(SubSeq(seq, 1, Len(seq) - 1)), seq[Len(seq)])

\* Every order in which a store may hand out the items of a set
Orders(S) ==
    { s \in [1..Cardinality(S) -> S] : \A x \in S : \E i \in 1..Cardinality(S) : s[i] = x }

\* A Query: the items in the order of their sort key (items with equal sort
\* keys in any order), at most Limit of them.
QueryResults(matching, sort_key, forward, limit) ==
    { Slice(s, limit) :
        s \in { o \in Orders(matching) :
                  \A i, j \in 1..Len(o) :
                     i < j => IF forward THEN StrLeq(o[i][sort_key], o[j][sort_key])
                                         ELSE StrLeq(o[j][sort_key], o[i][sort_key]) } }

\* A Scan with Limit and a FilterExpression: Limit items of the table are
\* read, in the table's own order, and the filter is applied to those.
ScanResults(tbl, passing, limit) ==
    UNION { Orders(read \cap passing) :
              read \in { r \in SUBSET tbl : Cardinality(r) = Min(limit, Cardinality(tbl)) } }

\* boto3 validates Limit before the request is sent (valid min value: 1)
ValidLimit(limit) == limit >= 1

(***************************************************************************)
(* List operations.                                                        *)
(***************************************************************************)
\* MockDynamoDBService.list_user_photos / list_recent_photos / list_photo_comments:
\* the items of the dict that pass the test, in dict order
MockSelect(d, prefix, field, value) ==
    LET picked == SelectSeq(d, LAMBDA e :
                      /\ StartsWith(e.key, prefix)
                      /\ field # "" => Get(e.item, field, None) = value)
    IN  [i \in 1..Len(picked) |-> picked[i].item]

MockListUserPhotos(d, user_id, limit) ==
    Slice(SortDesc(MockSelect(d, S_PHOTO, "user_id", user_id)), limit)

MockListRecentPhotos(d, limit) ==
    Slice(SortDesc(MockSelect(d, S_PHOTO, "", None)), limit)

MockListPhotoComments(d, photo_id, limit) ==
    Slice(SortAsc(MockSelect(d, S_COMMENT, "photo_id", photo_id)), limit)

\* DynamoDBService.list_user_photos: every result the GSI1 query can give
DynListUserPhotos(tbl, user_id, limit) ==
    IF ~ValidLimit(limit) THEN { Raise("ParamValidationError") }
    ELSE { Some(r) : r \in QueryResults(
              { x \in tbl : /\ {"GSI1PK", "GSI1SK"} \subseteq DOMAIN x
                            /\ x.GSI1PK = S_USER \o user_id
                            /\ StartsWith(x.GSI1SK, S_PHOTO) },
              "GSI1SK", FALSE, limit) }

\* DynamoDBService.list_recent_photos: every result the GSI2 query can give
DynListRecentPhotos(tbl, limit) ==
    IF ~ValidLimit(limit) THEN { Raise("ParamValidationError") }
    ELSE { Some(r) : r \in QueryResults(
              { x \in tbl : /\ {"GSI2PK", "GSI2SK"} \subseteq DOMAIN x
                            /\ x.GSI2PK = S_PHOTOS },
              "GSI2SK", FALSE, limit) }

\* DynamoDBService.list_photo_comments: the result of the primary-key query
DynListPhotoComments(tbl, photo_id, limit) ==
    IF ~ValidLimit(limit) THEN { Raise("ParamValidationError") }
    ELSE { Some(r) : r \in QueryResults(
              { x \in tbl : x.PK = S_PHOTO \o photo_id /\ StartsWith(x.SK, S_COMMENT) },
              "SK", TRUE, limit) }

\* SimpleDynamoDBService.list_user_photos: every result the scan can give
SimpleListUserPhotos(tbl, user_id, limit) ==
    IF ~ValidLimit(limit) THEN { Raise("ParamValidationError") }
    ELSE { Some(Slice(SortDesc(items), limit)) :
              items \in ScanResults(tbl,
                  { x \in tbl : Get(x, "user_id", None) = user_id /\ TypeOf(x) = "PHOTO" },
                  limit) }

\* SimpleDynamoDBService.list_recent_photos: every result the scan can give
SimpleListRecentPhotos(tbl, limit) ==
    IF ~ValidLimit(limit) THEN { Raise("ParamValidationError") }
    ELSE { Some(Slice(SortDesc(items), limit)) :
              items \in ScanResults(tbl, { x \in tbl : TypeOf(x) = "PHOTO" }, limit) }

\* SimpleDynamoDBService.list_photo_comments: every result the scan can give
SimpleListPhotoComments(tbl, photo_id, limit) ==
    IF ~ValidLimit(limit) THEN { Raise("ParamValidationError") }
    ELSE { Some(SortAsc(items)) :
              items \in ScanResults(tbl,
                  { x \in tbl : Get(x, "photo_id", None) = photo_id /\ TypeOf(x) = "COMMENT" },
                  limit) }

ListUserPhotos(user_id, limit) ==
    /\ req' = [op |-> "list_user_photos", user_id |-> user_id, limit |-> limit]
    /\ \E d \in DynListUserPhotos(table, user_id, limit),
          s \in SimpleListUserPhotos(simple, user_id, limit) :
          ret' = [mock |-> Some(MockListUserPhotos(data, user_id, limit)), dyn |-> d, simple |-> s]
    /\ UNCHANGED <<clock, data, table, simple, pc, sent, issued>>

ListRecentPhotos(limit) ==
    /\ req' = [op |-> "list_recent_photos", limit |-> limit]
    /\ \E d \in DynListRecentPhotos(table, limit),
          s \in SimpleListRecentPhotos(simple, limit) :
          ret' = [mock |-> Some(MockListRecentPhotos(data, limit)), dyn |-> d, simple |-> s]
    /\ UNCHANGED <<clock, data, table, simple, pc, sent, issued>>

ListPhotoComments(photo_id, limit) ==
    /\ req' = [op |-> "list_photo_comments", photo_id |-> photo_id, limit |-> limit]
    /\ \E d \in DynListPhotoComments(table, photo_id, limit),
          s \in SimpleListPhotoComments(simple, photo_id, limit) :
          ret' = [mock |-> Some(MockListPhotoComments(data, photo_id, limit)), dyn |-> d, simple |-> s]
    /\ UNCHANGED <<clock, data, table, simple, pc, sent, issued>>

(***************************************************************************)
(* The clock.                                                              *)
(***************************************************************************)
Tick ==
    /\ clock < MaxClock
    /\ clock' = clock + 1
    /\ UNCHANGED <<data, table, simple, req, ret, pc, sent, issued>>

Callers == 1..NumCallers

Init ==
    /\ clock = ClockStart
    /\ data = <<>>
    /\ table = {}
    /\ simple = {}
    /\ req = [op |-> "init"]
    /\ ret = [mock |-> NoneVal, dyn |-> NoneVal, simple |-> NoneVal]
    /\ pc = [c \in Callers |-> "idle"]
    /\ sent = [c \in Callers |-> NoneVal]
    /\ issued = {}

(***************************************************************************)
(* Spec: creating, updating and reading users and photos.                  *)
(***************************************************************************)
Next ==
    \/ Tick
    \/ \E user_data \in UserInputs, uuid \in FreshUuids(CrudUuids) :
          /\ NumRows("USER") < CrudUsers
          /\ CreateUser(user_data, uuid)
    \/ \E user_id \in CrudUserIds, updates \in UserUpdates : UpdateUser(user_id, updates)
    \/ \E photo_data \in PhotoInputs, photo_id \in FreshUuids(CrudUuids) :
          /\ NumRows("PHOTO") < CrudPhotos
          /\ CreatePhoto(photo_data, photo_id)
    \/ \E photo_id \in UuidPool(CrudUuids), updates \in PhotoUpdates :
          UpdatePhoto(photo_id, updates)
    \/ \E photo_id \in UuidPool(CrudUuids) : GetPhoto(photo_id)
    \/ \E user_id \in CrudUserIds : GetUser(user_id)

Spec == Init /\ [][Next]_vars

(***************************************************************************)
(* Properties of creates, updates and reads (Spec).                        *)
(***************************************************************************)
\* A step of update_photo or update_user (the clock is read, not advanced).
UpdateStep == req'.op \in {"update_photo", "update_user"} /\ clock' = clock

\* The mock key an update is aimed at.
MockTargetKey(r) ==
    IF r.op = "update_photo" THEN S_PHOTO \o r.photo_id ELSE S_USER \o r.user_id

\* The fields an update may change: those it names, and updated_at.
Named(updates) == (DOMAIN updates) \cup {"updated_at"}

\* The item new keeps every field of old outside the named ones.
KeepsUnnamed(old, new, updates) ==
    /\ (DOMAIN old) \subseteq (DOMAIN new)
    /\ \A f \in (DOMAIN old) \ Named(updates) : new[f] = old[f]

MockFrame ==
    LET key == MockTargetKey(req')
    IN  /\ Len(data') = Len(data)
        /\ \A i \in 1..Len(data) :
              /\ data'[i].key = data[i].key
              /\ data[i].key # key => data'[i] = data[i]
              /\ data[i].key = key => KeepsUnnamed(data[i].item, data'[i].item, req'.updates)

DynFrame ==
    LET pk == S_USER \o req'.user_id
    IN  (req'.op = "update_user" /\ DynHas(table, pk, pk)) =>
           /\ { x \in table' : x.PK # pk } = { x \in table : x.PK # pk }
           /\ DynHas(table', pk, pk)
           /\ KeepsUnnamed(DynItem(table, pk, pk), DynItem(table', pk, pk), req'.updates)

SimpleFrame ==
    /\ req'.op = "update_user" => simple' = simple
    /\ (req'.op = "update_photo" /\ SimpleHas(simple, req'.photo_id)) =>
           /\ { x \in simple' : x.id # req'.photo_id } = { x \in simple : x.id # req'.photo_id }
           /\ SimpleHas(simple', req'.photo_id)
           /\ KeepsUnnamed(SimpleItem(simple, req'.photo_id),
                           SimpleItem(simple', req'.photo_id), req'.updates)

\* C3: an update of an existing user or photo with a partial field mapping
\* leaves every field it does not name (other than updated_at) as it was, and
\* leaves every other entity of the store unchanged.
C3_UpdateFrame == [][UpdateStep => (MockFrame /\ DynFrame /\ SimpleFrame)]_vars

\* C3 witness: a photo was updated with a mapping that names only the title,
\* while the store holds another entity; the photo kept its file_path.
C3_Witness ==
    /\ req.op = "update_photo"
    /\ DOMAIN req.updates = {"title"}
    /\ ret.mock.tag = "some" /\ ret.simple.tag = "some"
    /\ ret.mock.val.title = req.updates.title
    /\ ret.mock.val.file_path # <<>>
    /\ Len(data) >= 2

\* The entity an update step is aimed at exists before the step (mock).
MockTargetExists == DictHas(data, MockTargetKey(req'))

StampAdvances(old, new) ==
    /\ new.updated_at = Isoformat(clock)
    /\ StrLeq(old.updated_at, new.updated_at)
    /\ StrLeq(new.created_at, new.updated_at)
    /\ old.updated_at # Isoformat(clock) => StrLess(old.updated_at, new.updated_at)

MatchesInput(got, photo_data) ==
    /\ got.tag = "some"
    /\ got.val.user_id = photo_data["user_id"]
    /\ got.val.title = Get(photo_data, "title", <<>>)
    /\ got.val.file_path = photo_data["file_path"]
    /\ got.val.created_at = got.val.updated_at

\* C5: right after create_photo, get_photo with the returned photo_id returns
\* an item whose user_id, title and file_path are the inputs and whose
\* created_at equals its updated_at, in every backend.
C5_GetAfterCreate ==
    req.op = "create_photo" =>
        /\ MatchesInput(MockGetPhoto(data, ret.mock.val.photo_id), req.photo_data)
        /\ MatchesInput(DynGetPhoto(table, ret.dyn.val.photo_id), req.photo_data)
        /\ MatchesInput(SimpleGetPhoto(simple, ret.simple.val.photo_id), req.photo_data)

\* C5 witness: a photo with a title has just been created and is stored.
C5_Witness ==
    /\ req.op = "create_photo"
    /\ "title" \in DOMAIN req.photo_data
    /\ MockGetPhoto(data, ret.mock.val.photo_id).tag = "some"
    /\ DynGetPhoto(table, ret.dyn.val.photo_id).tag = "some"

(***************************************************************************)
(* SpecListPhotos: photos of two users and the photo lists.                *)
(* SpecListComments: comments on two photos and the comment list.          *)
(***************************************************************************)
\* The limits a caller passes: the routes pass min(limit, 100) of any integer
Limits == (0 - 1)..MaxLimit

ListPhotoInputs == { [user_id |-> u, file_path |-> <<47, 97>>] : u \in UserIds }

\* Comments are written for one photo identifier or another, by one user.
CommentInputs ==
    { [photo_id |-> p, user_id |-> <<120>>, content |-> <<104>>] : p \in UuidPool(2) }

NextListPhotos ==
    \/ Tick
    \/ \E photo_data \in ListPhotoInputs, photo_id \in FreshUuids(ListUuids) :
          /\ NumRows("PHOTO") < ListPhotos
          /\ CreatePhoto(photo_data, photo_id)
    \/ \E comment_data \in CommentInputs, comment_id \in FreshUuids(ListUuids) :
          /\ NumRows("COMMENT") < ListOtherRows
          /\ CreateComment(comment_data, comment_id)
    \/ \E user_id \in UserIds, limit \in Limits : ListUserPhotos(user_id, limit)
    \/ \E limit \in Limits : ListRecentPhotos(limit)

SpecListPhotos == Init /\ [][NextListPhotos]_vars

NextListComments ==
    \/ Tick
    \/ \E photo_data \in ListPhotoInputs, photo_id \in FreshUuids(ListUuids) :
          /\ NumRows("PHOTO") < ListOtherRows
          /\ photo_data["user_id"] = <<120>>
          /\ CreatePhoto(photo_data, photo_id)
    \/ \E comment_data \in CommentInputs, comment_id \in FreshUuids(ListUuids) :
          /\ NumRows("COMMENT") < ListComments
          /\ CreateComment(comment_data, comment_id)
    \/ \E photo_id \in UuidPool(2), limit \in Limits : ListPhotoComments(photo_id, limit)

SpecListComments == Init /\ [][NextListComments]_vars

(***************************************************************************)
(* Properties of the list operations.                                      *)
(***************************************************************************)
Backends == {"mock", "dyn", "simple"}

PhotoListOps == {"list_recent_photos", "list_user_photos"}

ListOps == PhotoListOps \cup {"list_photo_comments"}

\* Newest first: created_at never increases along the list.
NewestFirst(seq) ==
    \A i, j \in 1..Len(seq) : i < j => StrLeq(seq[j].created_at, seq[i].created_at)

\* Oldest first: created_at never decreases along the list.
OldestFirst(seq) ==
    \A i, j \in 1..Len(seq) : i < j => StrLeq(seq[i].created_at, seq[j].created_at)

\* The identifier of a listed photo or comment.
IdOf(x) == IF "comment_id" \in DOMAIN x THEN x.comment_id ELSE x.photo_id

\* The identifiers of a list, in its order.
IdsOf(seq) == [i \in 1..Len(seq) |-> IdOf(seq[i])]

\* C6: list_recent_photos(limit) and list_user_photos(user_id, limit) return at
\* most limit items (none for a limit below zero), newest first, in every
\* backend and for every limit a caller passes.
C6_AtMostLimitNewestFirst ==
    req.op \in PhotoListOps =>
        \A b \in Backends :
            ret[b].tag = "some" =>
                /\ Len(ret[b].val) <= Max(req.limit, 0)
                /\ NewestFirst(ret[b].val)

\* C7: list_photo_comments returns the comments oldest first, in every backend.
C7_OldestFirst ==
    req.op = "list_photo_comments" =>
        \A b \in Backends : ret[b].tag = "some" => OldestFirst(ret[b].val)

\* No two stored rows were created at the same clock reading.
DistinctStamps ==
    \A i, j \in 1..Len(data) :
        i # j => data[i].item.created_at # data[j].item.created_at

\* C8: after the same creates, the in-memory and the durable backend return
\* the same items in the same order from the three list operations (stated
\* here for rows created at distinct clock readings, and for calls that both
\* backends answer).
C8_MockEqualsDurable ==
    (/\ req.op \in ListOps
     /\ DistinctStamps
     /\ ret.mock.tag = "some"
     /\ ret.dyn.tag = "some") =>
        IdsOf(ret.mock.val) = IdsOf(ret.dyn.val)

\* C9: the scan-based lists return the same items in the same order as the
\* indexed queries, for the same table content and limit (stated here for
\* the photo lists, over rows created at distinct clock readings).
C9_ScanEqualsIndexed ==
    (/\ req.op \in PhotoListOps
     /\ DistinctStamps
     /\ ret.simple.tag = "some"
     /\ ret.dyn.tag = "some") =>
        IdsOf(ret.simple.val) = IdsOf(ret.dyn.val)

\* The stored photos of a user, and the stored comments of a photo (mock rows).
OwnedPhotoIds(user_id) ==
    { data[i].item.photo_id : i \in { k \in 1..Len(data) :
        StartsWith(data[k].key, S_PHOTO) /\ data[k].item.user_id = user_id } }

CommentIdsOn(photo_id) ==
    { data[i].item.comment_id : i \in { k \in 1..Len(data) :
        StartsWith(data[k].key, S_COMMENT) /\ data[k].item.photo_id = photo_id } }

\* The list holds only rows of the wanted set, and all of them when they fit.
OnlyAndAll(seq, wanted, limit) ==
    /\ \A i \in 1..Len(seq) : IdOf(seq[i]) \in wanted
    /\ Cardinality(wanted) <= limit => { IdOf(seq[i]) : i \in 1..Len(seq) } = wanted

\* C10: list_user_photos(u, limit) returns only photos of u, and all of them
\* when u owns at most limit photos; list_photo_comments(p, limit) likewise
\* for the comments on p; in every backend.
C10_OnlyAndAll ==
    \A b \in Backends :
        /\ (req.op = "list_user_photos" /\ ret[b].tag = "some") =>
              OnlyAndAll(ret[b].val, OwnedPhotoIds(req.user_id), req.limit)
        /\ (req.op = "list_photo_comments" /\ ret[b].tag = "some") =>
              OnlyAndAll(ret[b].val, CommentIdsOn(req.photo_id), req.limit)


(***************************************************************************)
(* Share links.                                                            *)
(***************************************************************************)
\* raise HTTPException(status_code=..., detail=...)
HTTPException(status_code, detail) ==
    [tag |-> "raise", err |-> "HTTPException", status_code |-> status_code, detail |-> detail]

\* expiration_days read as "always the default"
AlwaysDefaultDays(link_data) == DEFAULT_LINK_EXPIRATION_DAYS

\* link_data.get('expiration_days', DEFAULT_LINK_EXPIRATION_DAYS)
ExpirationDays(link_data) ==
    Get(link_data, "expiration_days", DEFAULT_LINK_EXPIRATION_DAYS)

\* int(expires_at_dt.timestamp()): the whole seconds of the expiry
TtlEpoch(expires_at_dt) == expires_at_dt \div SubSec

MockLinkItem(link_data, link_id, timestamp, expires_at) ==
    [ entity_type |-> "SHARE_LINK",
      link_id |-> link_id,
      photo_id |-> link_data["photo_id"],
      user_id |-> link_data["user_id"],
      expires_at |-> expires_at,
      access_count |-> 0,
      created_at |-> timestamp,
      updated_at |-> timestamp ]

DynLinkItem(link_data, link_id, timestamp, expires_at_dt) ==
    [ PK |-> S_SHARE_LINK \o link_id,
      SK |-> S_SHARE_LINK \o link_id,
      GSI1PK |-> S_PHOTO \o link_data["photo_id"],
      GSI1SK |-> S_LINK \o timestamp,
      entity_type |-> "SHARE_LINK",
      link_id |-> link_id,
      photo_id |-> link_data["photo_id"],
      user_id |-> link_data["user_id"],
      expires_at |-> Isoformat(expires_at_dt),
      ttl_epoch |-> TtlEpoch(expires_at_dt),
      access_count |-> 0,
      created_at |-> timestamp,
      updated_at |-> timestamp ]

SimpleLinkItem(link_data, link_id, timestamp, expires_at) ==
    [ id |-> link_id,
      type |-> "SHARE_LINK",
      link_id |-> link_id,
      photo_id |-> link_data["photo_id"],
      user_id |-> link_data["user_id"],
      expires_at |-> expires_at,
      access_count |-> 0,
      created_at |-> timestamp,
      updated_at |-> timestamp ]

\* create_shareable_link reads the clock twice: once for created_at and,
\* gap ticks later, once more for the expiry.
CreateShareableLink(link_data, link_id, gap) ==
    LET timestamp == Isoformat(clock)
        expires_at_dt == (clock + gap) + Timedelta(ExpirationDays(link_data))
        expires_at == Isoformat(expires_at_dt)
    IN  /\ clock' = clock + gap
        /\ data' = DictSet(data, S_SHARE_LINK \o link_id,
                           MockLinkItem(link_data, link_id, timestamp, expires_at))
        /\ table' = DynPutItem(table, DynLinkItem(link_data, link_id, timestamp, expires_at_dt))
        /\ simple' = SimplePutItem(simple,
                           SimpleLinkItem(link_data, link_id, timestamp, expires_at))
        /\ issued' = issued \cup
               { [link_id |-> link_id, expiration_days |-> ExpirationDays(link_data)] }
        /\ req' = [op |-> "create_shareable_link", link_data |-> link_data]
        /\ ret' = [ mock |-> Some(MockLinkItem(link_data, link_id, timestamp, expires_at)),
                    dyn |-> Some(DynLinkItem(link_data, link_id, timestamp, expires_at_dt)),
                    simple |-> Some(SimpleLinkItem(link_data, link_id, timestamp, expires_at)) ]
        /\ UNCHANGED <<pc, sent>>

\* A check that finds no link expired
NeverExpired(now, expires_at) == FALSE

\* datetime.now() >= expires_at
ExpiredAtOrAfter(now, expires_at) == now >= expires_at

\* datetime.now() > expires_at
Expired(now, expires_at) == now > expires_at

\* The check every get_shareable_link makes on the row it found
CheckedLink(link, now) ==
    IF link.tag = "none" THEN NoneVal
    ELSE IF "expires_at" \notin DOMAIN link.val THEN Raise("KeyError")
    ELSE IF Expired(now, Fromisoformat(link.val.expires_at)) THEN NoneVal
    ELSE link

MockGetShareableLink(d, link_id, now) ==
    CheckedLink(DictLookup(d, S_SHARE_LINK \o link_id), now)

DynGetShareableLink(tbl, link_id, now) ==
    CheckedLink(DynGetItem(tbl, S_SHARE_LINK \o link_id, S_SHARE_LINK \o link_id), now)

SimpleGetShareableLink(tbl, link_id, now) ==
    CheckedLink(SimpleGetItem(tbl, link_id), now)

GetShareableLink(link_id) ==
    /\ req' = [op |-> "get_shareable_link", link_id |-> link_id]
    /\ ret' = [ mock |-> MockGetShareableLink(data, link_id, clock),
                dyn |-> DynGetShareableLink(table, link_id, clock),
                simple |-> SimpleGetShareableLink(simple, link_id, clock) ]
    /\ UNCHANGED <<clock, data, table, simple, pc, sent, issued>>

\* access_count += 1 read as "-= 1"
MockDecremented(item, now) ==
    [item EXCEPT !.access_count = @ - 1, !.updated_at = Isoformat(now)]

\* access_count += 1 with the new updated_at still to be written
MockCountedOnly(item, now) == [item EXCEPT !.access_count = @ + 1]

\* self.data[link_key]['access_count'] += 1 and the new updated_at
MockIncremented(item, now) ==
    [item EXCEPT !.access_count = @ + 1, !.updated_at = Isoformat(now)]

\* The update_item request of increment_link_access: its values are computed
\* by the caller before the request is sent.
IncRequest(link_id, now) ==
    [link_id |-> link_id, inc |-> 1, timestamp |-> Isoformat(now)]

\* 'SET access_count = :inc, updated_at = :timestamp'
SetApplied(item, m) ==
    Merge(item, [access_count |-> m.inc, updated_at |-> m.timestamp])

\* update_item read as a put_item of the key and the two new values
PutApplied(item, m) ==
    Merge(Restrict(item, {"PK", "SK", "id"}),
          [access_count |-> m.inc, updated_at |-> m.timestamp])

\* 'ADD access_count :inc SET updated_at = :timestamp' applied by the table
\* to the item as it is when the request arrives (ADD starts an absent
\* attribute from zero).
AddApplied(item, m) ==
    Merge(item, [ access_count |-> Get(item, "access_count", 0) + m.inc,
                  updated_at |-> m.timestamp ])

\* increment_link_access is called: the in-memory backend runs it to the end
\* (it never awaits); the durable backends send their request.
IncCall(c, link_id) ==
    /\ pc[c] = "idle"
    /\ pc' = [pc EXCEPT ![c] = "sent"]
    /\ sent' = [sent EXCEPT ![c] = Some(IncRequest(link_id, clock))]
    /\ data' = IF DictHas(data, S_SHARE_LINK \o link_id)
               THEN DictSet(data, S_SHARE_LINK \o link_id,
                            MockIncremented(DictGet(data, S_SHARE_LINK \o link_id), clock))
               ELSE data
    /\ req' = [op |-> "increment_link_access", link_id |-> link_id, caller |-> c]
    /\ ret' = [mock |-> NoneVal, dyn |-> NoneVal, simple |-> NoneVal]
    /\ UNCHANGED <<clock, table, simple, issued>>

\* The request of caller c reaches the table, which applies it in one step.
IncApply(c) ==
    LET m == sent[c].val
        key == S_SHARE_LINK \o m.link_id
    IN  /\ pc[c] = "sent"
        /\ pc' = [pc EXCEPT ![c] = "done"]
        /\ table' = DynPutItem(table,
               AddApplied(IF DynHas(table, key, key) THEN DynItem(table, key, key)
                          ELSE [PK |-> key, SK |-> key], m))
        /\ simple' = SimplePutItem(simple,
               AddApplied(IF SimpleHas(simple, m.link_id) THEN SimpleItem(simple, m.link_id)
                          ELSE [id |-> m.link_id], m))
        /\ req' = [op |-> "increment_applied", link_id |-> m.link_id, caller |-> c]
        /\ ret' = [mock |-> NoneVal, dyn |-> NoneVal, simple |-> NoneVal]
        /\ UNCHANGED <<clock, data, sent, issued>>

\* The table's time-to-live on ttl_epoch: a row whose ttl_epoch is less than
\* the current time in whole epoch seconds may be removed at any moment.
TtlDelete ==
    \E x \in table :
        /\ "ttl_epoch" \in DOMAIN x
        /\ x.ttl_epoch < clock \div SubSec
        /\ table' = table \ {x}
        /\ req' = [op |-> "ttl_delete"]
        /\ ret' = [mock |-> NoneVal, dyn |-> NoneVal, simple |-> NoneVal]
        /\ UNCHANGED <<clock, data, simple, pc, sent, issued>>

\* The response of the delete_share_link route to a lookup result: the route
\* checks the owner and answers; it calls nothing that removes the row.
DeleteLinkResponse(share_link, current_user) ==
    IF share_link.tag = "raise"
    THEN HTTPException(500, "Failed to delete share link")
    ELSE IF share_link.tag = "none"
    THEN HTTPException(404, "Share link not found")
    ELSE IF share_link.val.user_id # current_user
    THEN HTTPException(403, "Not authorized to delete this share link")
    ELSE Some([message |-> "Share link deletion initiated"])

delete_share_link(link_id, current_user) ==
    /\ req' = [op |-> "delete_share_link", link_id |-> link_id, current_user |-> current_user]
    /\ ret' = [ mock |-> DeleteLinkResponse(MockGetShareableLink(data, link_id, clock),
                                            current_user),
                dyn |-> DeleteLinkResponse(DynGetShareableLink(table, link_id, clock),
                                           current_user),
                simple |-> DeleteLinkResponse(SimpleGetShareableLink(simple, link_id, clock),
                                              current_user) ]
    /\ UNCHANGED <<clock, data, table, simple, pc, sent, issued>>

LinkTick ==
    /\ clock < ClockStart + LinkTicks
    /\ clock' = clock + 1
    /\ UNCHANGED <<data, table, simple, req, ret, pc, sent, issued>>

(***************************************************************************)
(* SpecLink: share links created, resolved, counted by one caller and      *)
(* removed by the table's time-to-live.                                    *)
(***************************************************************************)
LinkInputs ==
    { [photo_id |-> <<112>>, user_id |-> <<120>>, expiration_days |-> d] : d \in 1..MaxDays }

\* An identifier no create has returned
UnknownLinkId == <<122>>

\* The identifiers a caller can ask for: those returned so far and a wrong one
LinkIdInputs == { r.link_id : r \in issued } \cup {UnknownLinkId}

NextLink ==
    \/ LinkTick
    \/ \E link_data \in LinkInputs, link_id \in FreshUuids(LinkUuids), gap \in 0..MaxGap :
          /\ NumRows("SHARE_LINK") < MaxLinks
          /\ clock + gap <= ClockStart + LinkTicks
          /\ CreateShareableLink(link_data, link_id, gap)
    \/ \E link_id \in LinkIdInputs : GetShareableLink(link_id)
    \/ \E link_id \in LinkIdInputs : IncCall(1, link_id)
    \/ IncApply(1)
    \/ TtlDelete

SpecLink == Init /\ [][NextLink]_vars

(***************************************************************************)
(* SpecLinkOps: the operations that write link rows, and the               *)
(* delete_share_link route (which resolves the link itself) called by the  *)
(* owner of the links and by another user.                                 *)
(***************************************************************************)
LinkRouteUsers == { <<120>>, <<121>> }

NextLinkOps ==
    \/ LinkTick
    \/ \E link_data \in LinkInputs, link_id \in FreshUuids(LinkUuids), gap \in 0..MaxGap :
          /\ NumRows("SHARE_LINK") < MaxLinks
          /\ clock + gap <= ClockStart + LinkTicks
          /\ CreateShareableLink(link_data, link_id, gap)
    \/ \E link_id \in LinkIdInputs : IncCall(1, link_id)
    \/ IncApply(1)
    \/ TtlDelete
    \/ \E link_id \in LinkIdInputs, current_user \in LinkRouteUsers :
          delete_share_link(link_id, current_user)

SpecLinkOps == Init /\ [][NextLinkOps]_vars

(***************************************************************************)
(* SpecInc: concurrent calls of increment_link_access on existing links.   *)
(***************************************************************************)
IncTick ==
    /\ clock < ClockStart + IncTicks
    /\ clock' = clock + 1
    /\ UNCHANGED <<data, table, simple, req, ret, pc, sent, issued>>

NextInc ==
    \/ IncTick
    \/ \E link_data \in LinkInputs, link_id \in FreshUuids(LinkUuids), gap \in 0..MaxGap :
          /\ NumRows("SHARE_LINK") < MaxLinks
          /\ clock + gap <= ClockStart + IncTicks
          /\ CreateShareableLink(link_data, link_id, gap)
    \/ \E c \in Callers, link_id \in { r.link_id : r \in issued } : IncCall(c, link_id)
    \/ \E c \in Callers : IncApply(c)

SpecInc == Init /\ [][NextInc]_vars

(***************************************************************************)
(* Properties of share links.                                              *)
(***************************************************************************)
\* A step in which get_shareable_link answers (the clock is the call's now)
GetStep == req'.op = "get_shareable_link" /\ clock' = clock

IssuedIds == { r.link_id : r \in issued }

IssuedDays(link_id) == (CHOOSE r \in issued : r.link_id = link_id).expiration_days

\* The row create_shareable_link stored in the in-memory backend
MockLink(link_id) == DictGet(data, S_SHARE_LINK \o link_id)

\* The link is what the backend returned
Returned(r, link_id) == r.tag = "some" /\ r.val.link_id = link_id

CalledOn(link_id) == { c \in Callers : pc[c] # "idle" /\ sent[c].val.link_id = link_id }

AppliedOn(link_id) == { c \in Callers : pc[c] = "done" /\ sent[c].val.link_id = link_id }

\* The stored rows of a created link in the durable backends, if still whole
DynLinkRows(link_id) ==
    { x \in table : x.PK = S_SHARE_LINK \o link_id /\ "expires_at" \in DOMAIN x }

SimpleLinkRows(link_id) == { x \in simple : x.id = link_id /\ "expires_at" \in DOMAIN x }

\* C2: however the concurrent calls of increment_link_access on an existing
\* link interleave, its access_count is the number of calls made (in-memory
\* backend) and the number of requests applied (durable backends): when all
\* N calls have completed it is exactly N above the 0 it was created with.
C2_NoLostUpdate ==
    \A link_id \in IssuedIds :
        /\ MockLink(link_id).access_count = Cardinality(CalledOn(link_id))
        /\ \A x \in DynLinkRows(link_id) : x.access_count = Cardinality(AppliedOn(link_id))
        /\ \A x \in SimpleLinkRows(link_id) : x.access_count = Cardinality(AppliedOn(link_id))

\* Every caller has incremented the same link, and every backend counts N.
C2_Witness ==
    \E link_id \in IssuedIds :
        /\ AppliedOn(link_id) = Callers
        /\ MockLink(link_id).access_count = NumCallers
        /\ \E x \in DynLinkRows(link_id) : x.access_count = NumCallers
        /\ \E x \in SimpleLinkRows(link_id) : x.access_count = NumCallers

(***************************************************************************)
(* The create_share_link route: the request body is validated against      *)
(* ShareableLinkCreate before the handler runs.                            *)
(***************************************************************************)
\* A JSON value of the field expiration_days: an integer or null
JInt(n) == [t |-> "int", v |-> n]

JNull == [t |-> "null"]

\* Field(30, ge=1, le=365): the lower limit
MinExpirationDays == 1

\* Field(30, ge=1, le=365): the upper limit
MaxExpirationDays == 365

\* Field(30, ge=1, le=365): the value of a field left out of the body
FieldDefaultDays == 30

\* le=365 read as "no upper limit"
ValidNoUpperLimit(body) ==
    \/ "expiration_days" \notin DOMAIN body
    \/ body.expiration_days.t = "null"
    \/ body.expiration_days.v >= MinExpirationDays

\* expiration_days: Optional[int] = Field(30, ge=1, le=365): a field left
\* out and a null pass; an integer passes when it is within the limits.
ValidExpirationDays(body) ==
    \/ "expiration_days" \notin DOMAIN body
    \/ body.expiration_days.t = "null"
    \/ /\ body.expiration_days.v >= MinExpirationDays
       /\ body.expiration_days.v <= MaxExpirationDays

\* expiration_days is None: timedelta(days=None) raises before the put
IsNullDays(body) ==
    /\ "expiration_days" \in DOMAIN body
    /\ body.expiration_days.t = "null"

\* link_dict = link_data.dict(); link_dict['user_id'] = current_user['user_id']
LinkDict(body, current_user) ==
    [ photo_id |-> body.photo_id,
      user_id |-> current_user,
      expiration_days |-> IF "expiration_days" \in DOMAIN body
                          THEN body.expiration_days.v
                          ELSE FieldDefaultDays ]

ShareOutcomeAnyCaller(photo, body, current_user) ==
    IF ~ValidExpirationDays(body) THEN HTTPException(422, "validation")
    ELSE IF photo.tag = "none" THEN HTTPException(404, "Photo not found")
    ELSE IF IsNullDays(body) THEN HTTPException(500, "Failed to create share link: TypeError")
    ELSE Some("create")

\* What create_share_link does with a photo lookup result: "create" when it
\* reaches a create_shareable_link that stores, else the response it raises.
ShareOutcome(photo, body, current_user) ==
    IF ~ValidExpirationDays(body) THEN HTTPException(422, "validation")
    ELSE IF photo.tag = "none" THEN HTTPException(404, "Photo not found")
    ELSE IF photo.val.user_id # current_user
         THEN HTTPException(403, "Not authorized to share this photo")
    ELSE IF IsNullDays(body) THEN HTTPException(500, "Failed to create share link: TypeError")
    ELSE Some("create")

create_share_link(body, current_user, link_id, gap) ==
    LET mockOut == ShareOutcome(MockGetPhoto(data, body.photo_id), body, current_user)
        dynOut == ShareOutcome(DynGetPhoto(table, body.photo_id), body, current_user)
        simpleOut == ShareOutcome(SimpleGetPhoto(simple, body.photo_id), body, current_user)
        created == "some" \in {mockOut.tag, dynOut.tag, simpleOut.tag}
        link_dict == LinkDict(body, current_user)
        timestamp == Isoformat(clock)
        expires_at_dt == (clock + gap) + Timedelta(ExpirationDays(link_dict))
        expires_at == Isoformat(expires_at_dt)
        mockItem == MockLinkItem(link_dict, link_id, timestamp, expires_at)
        dynItem == DynLinkItem(link_dict, link_id, timestamp, expires_at_dt)
        simpleItem == SimpleLinkItem(link_dict, link_id, timestamp, expires_at)
    IN  /\ created \/ gap = 0   \* no second clock reading unless the service is reached
        /\ clock' = IF created THEN clock + gap ELSE clock
        /\ data' = IF mockOut.tag = "some"
                   THEN DictSet(data, S_SHARE_LINK \o link_id, mockItem) ELSE data
        /\ table' = IF dynOut.tag = "some" THEN DynPutItem(table, dynItem) ELSE table
        /\ simple' = IF simpleOut.tag = "some" THEN SimplePutItem(simple, simpleItem) ELSE simple
        /\ issued' = IF created
                     THEN issued \cup { [link_id |-> link_id,
                                         expiration_days |-> ExpirationDays(link_dict)] }
                     ELSE issued
        /\ req' = [op |-> "create_share_link", body |-> body, current_user |-> current_user]
        /\ ret' = [ mock |-> IF mockOut.tag = "some" THEN Some(mockItem) ELSE mockOut,
                    dyn |-> IF dynOut.tag = "some" THEN Some(dynItem) ELSE dynOut,
                    simple |-> IF simpleOut.tag = "some" THEN Some(simpleItem) ELSE simpleOut ]
        /\ UNCHANGED <<pc, sent>>

(***************************************************************************)
(* SpecShare: share links created through the route and by calling         *)
(* create_shareable_link directly.                                         *)
(***************************************************************************)
\* The values of expiration_days tried: around both limits
ShareDays ==
    { MinExpirationDays - 2, MinExpirationDays - 1, MinExpirationDays,
      MaxExpirationDays, MaxExpirationDays + 1 }

StoredPhotoIds == { x.id : x \in { y \in simple : TypeOf(y) = "PHOTO" } }

SharePhotoIds == StoredPhotoIds \cup {UnknownLinkId}

ShareBodies ==
    { [photo_id |-> p, user_id |-> <<120>>] : p \in SharePhotoIds }
    \cup { [photo_id |-> p, user_id |-> <<120>>, expiration_days |-> JNull] :
              p \in SharePhotoIds }
    \cup { [photo_id |-> p, user_id |-> <<120>>, expiration_days |-> JInt(d)] :
              p \in SharePhotoIds, d \in ShareDays }

\* link_data of a direct call: any integer, or the key left out
ServiceLinkInputs ==
    { [photo_id |-> <<112>>, user_id |-> <<120>>] }
    \cup { [photo_id |-> <<112>>, user_id |-> <<120>>, expiration_days |-> d] : d \in ShareDays }

\* Enough identifiers for every photo and link, and one to spare
ShareUuids == SharePhotos + ShareLinks + 1

\* uuid4 of this specification: identifiers are only compared for equality,
\* so the next one generated is taken to be the first unused of the pool.
NextUuid(n) ==
    { u \in FreshUuids(n) : \A w \in FreshUuids(n) : u[1] <= w[1] }

NextShare ==
    \/ \E photo_data \in PhotoInputs, photo_id \in NextUuid(ShareUuids) :
          /\ NumRows("PHOTO") < SharePhotos
          /\ CreatePhoto(photo_data, photo_id)
    \/ \E body \in ShareBodies, current_user \in LinkRouteUsers,
          link_id \in NextUuid(ShareUuids), gap \in 0..MaxGap :
          /\ NumRows("SHARE_LINK") < ShareLinks
          /\ clock + gap <= MaxClock
          /\ create_share_link(body, current_user, link_id, gap)
    \/ \E link_data \in ServiceLinkInputs, link_id \in NextUuid(ShareUuids), gap \in 0..MaxGap :
          /\ NumRows("SHARE_LINK") < ShareLinks
          /\ clock + gap <= MaxClock
          /\ CreateShareableLink(link_data, link_id, gap)

SpecShare == Init /\ [][NextShare]_vars

(***************************************************************************)
(* Properties of link creation.                                            *)
(***************************************************************************)
RouteCreateStep == req'.op = "create_share_link"

ServiceCreateStep == req'.op = "create_shareable_link"

OutOfRange(d) == d < MinExpirationDays \/ d > MaxExpirationDays

\* The body names an integer outside [1, 365] or an explicit null
BadBody(body) ==
    /\ "expiration_days" \in DOMAIN body
    /\ \/ body.expiration_days.t = "null"
       \/ OutOfRange(body.expiration_days.v)

LinkRowsUnchanged == data' = data /\ table' = table /\ simple' = simple

CreatedStep ==
    /\ RouteCreateStep \/ ServiceCreateStep
    /\ ret'.mock.tag = "some"
    /\ data' # data

\* The days the caller asked for: the field when supplied, else 30
DaysAsked(r) ==
    IF r.op = "create_share_link"
    THEN IF "expiration_days" \in DOMAIN r.body
         THEN r.body.expiration_days.v ELSE FieldDefaultDays
    ELSE Get(r.link_data, "expiration_days", DEFAULT_LINK_EXPIRATION_DAYS)

\* The link rows a create step stored, one per backend
StoredLinks ==
    { DictGet(data', S_SHARE_LINK \o ret'.mock.val.link_id),
      DynItem(table', S_SHARE_LINK \o ret'.dyn.val.link_id,
                      S_SHARE_LINK \o ret'.dyn.val.link_id),
      SimpleItem(simple', ret'.simple.val.link_id) }

\* C12 as stated: the stored expires_at of a created link is its stored
\* created_at plus exactly expiration_days days (30 when not supplied).
C12_ExactlyDays ==
    [][CreatedStep =>
          \A x \in StoredLinks :
             Fromisoformat(x.expires_at)
                = Fromisoformat(x.created_at) + Timedelta(DaysAsked(req'))]_vars

\* C12, amended: created_at is the clock reading at the start of the call,
\* expires_at is the later reading taken for the expiry plus expiration_days
\* days (30 when not supplied), so expires_at is never earlier than
\* created_at plus that many days and exceeds it by the time between the
\* two readings.
C12_AtLeastDays ==
    [][CreatedStep =>
          \A x \in StoredLinks :
             /\ Fromisoformat(x.created_at) = clock
             /\ Fromisoformat(x.expires_at) = clock' + Timedelta(DaysAsked(req'))
             /\ Fromisoformat(x.expires_at)
                  >= Fromisoformat(x.created_at) + Timedelta(DaysAsked(req'))]_vars

\* A link created without expiration_days while the clock advanced between
\* the two readings: it expires later than 30 days after created_at.
C12_Witness ==
    /\ req.op = "create_shareable_link"
    /\ "expiration_days" \notin DOMAIN req.link_data
    /\ ret.mock.tag = "some"
    /\ DictHas(data, S_SHARE_LINK \o ret.mock.val.link_id)
    /\ Fromisoformat(ret.mock.val.expires_at)
         > Fromisoformat(ret.mock.val.created_at) + Timedelta(DEFAULT_LINK_EXPIRATION_DAYS)

(***************************************************************************)
(* Properties of the stored link rows (SpecLink).                          *)
(***************************************************************************)
\* The link rows of each store, as the items a get_item would return
MockLinkRowsOf(d) ==
    { d[i].item : i \in { j \in 1..Len(d) : StartsWith(d[j].key, S_SHARE_LINK) } }

DynLinkRowsOf(tbl) == { x \in tbl : StartsWith(x.PK, S_SHARE_LINK) }

SimpleLinkRowsOf(tbl) == { x \in tbl : x.id \in IssuedIds \cup {UnknownLinkId} }

\* Every link row of before that is still stored has a count at least as high
CountsKept(before, after, idField) ==
    \A x \in before : \A y \in after :
        (x[idField] = y[idField]) => (y.access_count >= x.access_count)

\* The rows a create step stored all start at zero
StartsAtZero ==
    (req'.op = "create_shareable_link" /\ data' # data) =>
        /\ \A b \in Backends : ret'[b].val.access_count = 0
        /\ DictGet(data', S_SHARE_LINK \o ret'.mock.val.link_id).access_count = 0
        /\ \A y \in DynLinkRowsOf(table') :
              (y.PK = S_SHARE_LINK \o ret'.dyn.val.link_id) => y.access_count = 0
        /\ \A y \in SimpleLinkRowsOf(simple') :
              (y.id = ret'.simple.val.link_id) => y.access_count = 0

CallerStep == req'.op # "ttl_delete"

\* Row y is row x with at most access_count and updated_at changed
SameButCount(x, y) ==
    /\ DOMAIN y = DOMAIN x
    /\ \A f \in DOMAIN x \ {"access_count", "updated_at"} : y[f] = x[f]

\* Every link row of before is stored after, changed in its count only
LinksKept(before, after) == \A x \in before : \E y \in after : SameButCount(x, y)

ExpiredLink(link_id) ==
    /\ link_id \in IssuedIds
    /\ clock > Fromisoformat(MockLink(link_id).expires_at)

\* C15: get_shareable_link gives the same result, absent, for a link id no
\* create has returned and for a link that has expired, in every backend
\* (so the get_shared_photo route answers both with the same 404).
C15_SameAbsent ==
    [][(GetStep /\ (req'.link_id \notin IssuedIds \/ ExpiredLink(req'.link_id)))
          => \A b \in Backends : ret'[b] = NoneVal]_vars

\* A step of increment_link_access: the call, or its request being applied
IncStep == req'.op \in {"increment_link_access", "increment_applied"} /\ pc' # pc

\* C16: increment_link_access on a link id that has no row leaves the store
\* unchanged, in the in-memory backend and in the durable backends.
C16_AbsentUnchanged ==
    [][IncStep =>
          /\ ~DictHas(data, S_SHARE_LINK \o req'.link_id) => data' = data
          /\ ~DynHas(table, S_SHARE_LINK \o req'.link_id, S_SHARE_LINK \o req'.link_id)
                => table' = table
          /\ ~SimpleHas(simple, req'.link_id) => simple' = simple]_vars

(***************************************************************************)
(* Properties of calls on keys that are not stored (Spec).                 *)
(***************************************************************************)
\* The identifier an update or a get names
TargetId(r) == IF "user_id" \in DOMAIN r THEN r.user_id ELSE r.photo_id

\* C17: update_user / update_photo on a primary key absent from the store
\* fails and leaves the store unchanged, in every backend.
C17_AbsentFails ==
    [][UpdateStep =>
          /\ ~DictHas(data, MockTargetKey(req'))
                => (ret'.mock.tag = "raise" /\ data' = data)
          /\ ~DynHas(table, MockTargetKey(req'), MockTargetKey(req'))
                => (ret'.dyn.tag = "raise" /\ table' = table)
          /\ ~SimpleHas(simple, TargetId(req'))
                => (ret'.simple.tag = "raise" /\ simple' = simple)]_vars

\* A step of get_user or get_photo
GetItemStep == req'.op \in {"get_user", "get_photo"} /\ clock' = clock

\* The key named was never created: no create has stored it in any backend
NeverCreated(r) == ~DictHas(data, IF r.op = "get_user" THEN S_USER \o r.user_id
                                                        ELSE S_PHOTO \o r.photo_id)

\* C18: get_user and get_photo called with an identifier that was never
\* created return absent in every backend, without raising and without
\* making an item up.
C18_AbsentIsNone ==
    [][(GetItemStep /\ NeverCreated(req')) => \A b \in Backends : ret'[b] = NoneVal]_vars

\* The share-link rows a step of the route added to each store
MockLinksAdded == MockLinkRowsOf(data') \ MockLinkRowsOf(data)

DynLinksAdded == DynLinkRowsOf(table') \ DynLinkRowsOf(table)

SimpleLinksAdded == SimpleLinkRowsOf(simple') \ SimpleLinkRowsOf(simple)

\* What the claim says of one backend: a row is added only for a stored
\* photo of the caller; a well-formed request for an absent photo is
\* answered 404 and one for another user's photo 403, with no row added.
OwnerGate(photo, r, answer, added) ==
    /\ added # {} => (photo.tag = "some" /\ photo.val.user_id = r.current_user)
    /\ (ValidExpirationDays(r.body) /\ photo.tag = "none")
          => (answer = HTTPException(404, "Photo not found") /\ added = {})
    /\ (ValidExpirationDays(r.body) /\ photo.tag = "some"
                                    /\ photo.val.user_id # r.current_user)
          => (answer = HTTPException(403, "Not authorized to share this photo")
              /\ added = {})

\* C28: the create_share_link route stores a link only when the photo
\* exists and its user_id is the authenticated caller's; for an absent photo
\* it answers 404, for another user's photo 403, and stores no share-link
\* row in either case.
C28_OwnerGate ==
    [][RouteCreateStep =>
          /\ OwnerGate(MockGetPhoto(data, req'.body.photo_id), req', ret'.mock, MockLinksAdded)
          /\ OwnerGate(DynGetPhoto(table, req'.body.photo_id), req', ret'.dyn, DynLinksAdded)
          /\ OwnerGate(SimpleGetPhoto(simple, req'.body.photo_id), req', ret'.simple,
                       SimpleLinksAdded)]_vars

\* Another user has asked for a link to a stored photo, was answered 403,
\* and no link is stored.
C28_Witness ==
    /\ req.op = "create_share_link"
    /\ MockGetPhoto(data, req.body.photo_id).tag = "some"
    /\ MockGetPhoto(data, req.body.photo_id).val.user_id # req.current_user
    /\ \A b \in Backends : ret[b] = HTTPException(403, "Not authorized to share this photo")
    /\ MockLinkRowsOf(data) = {}
    /\ DynLinkRowsOf(table) = {}

(***************************************************************************)
(* Deleting photos.  Only SimpleDynamoDBService defines delete_photo; the  *)
(* two services get_db_service can return have no such method.             *)
(***************************************************************************)
\* delete_item(Key={'id': photo_id}): removes the row of that id, if any
SimpleDeleteItem(tbl, id) == { x \in tbl : x.id # id }

\* SimpleDynamoDBService.delete_photo: return True after delete_item
SimpleDeleted(tbl, photo_id) == TRUE

\* db_service.delete_photo(photo_id) on each service
DeletePhoto(photo_id) ==
    /\ simple' = SimpleDeleteItem(simple, photo_id)
    /\ req' = [op |-> "delete_photo", photo_id |-> photo_id]
    /\ ret' = [ mock |-> Raise("AttributeError"),
                dyn |-> Raise("AttributeError"),
                simple |-> Some(SimpleDeleted(simple, photo_id)) ]
    /\ UNCHANGED <<clock, data, table, pc, sent, issued>>

\* The response of the delete_photo route, from the photo lookup and from
\* what db_service.delete_photo gave
DeletePhotoResponse(photo, deleted) ==
    IF photo.tag = "none" THEN HTTPException(404, "Photo not found")
    ELSE IF deleted.tag = "raise" THEN HTTPException(500, "Failed to delete photo")
    ELSE IF ~deleted.val THEN HTTPException(500, "Failed to delete photo from database")
    ELSE Some([message |-> "Photo deleted successfully"])

\* The delete_photo route, with each service in the place of db_service
delete_photo(photo_id) ==
    /\ simple' = IF SimpleGetPhoto(simple, photo_id).tag = "none"
                 THEN simple ELSE SimpleDeleteItem(simple, photo_id)
    /\ req' = [op |-> "delete_photo_route", photo_id |-> photo_id]
    /\ ret' = [ mock |-> DeletePhotoResponse(MockGetPhoto(data, photo_id),
                                             Raise("AttributeError")),
                dyn |-> DeletePhotoResponse(DynGetPhoto(table, photo_id),
                                            Raise("AttributeError")),
                simple |-> DeletePhotoResponse(SimpleGetPhoto(simple, photo_id),
                                               Some(SimpleDeleted(simple, photo_id))) ]
    /\ UNCHANGED <<clock, data, table, pc, sent, issued>>

(***************************************************************************)
(* SpecDelete: a photo with a comment and a share link, and its deletion.  *)
(***************************************************************************)
DelCommentInputs ==
    { [photo_id |-> p, user_id |-> <<120>>, content |-> <<104>>] : p \in StoredPhotoIds }

DelLinkInputs ==
    { [photo_id |-> p, user_id |-> <<120>>, expiration_days |-> MinExpirationDays] :
         p \in StoredPhotoIds }

NextDelete ==
    \/ \E photo_data \in PhotoInputs, photo_id \in FreshUuids(DelUuids) :
          /\ NumRows("PHOTO") < DelPhotos
          /\ CreatePhoto(photo_data, photo_id)
    \/ \E comment_data \in DelCommentInputs, comment_id \in FreshUuids(DelUuids) :
          /\ NumRows("COMMENT") < DelComments
          /\ CreateComment(comment_data, comment_id)
    \/ \E link_data \in DelLinkInputs, link_id \in FreshUuids(DelUuids) :
          /\ NumRows("SHARE_LINK") < DelLinks
          /\ CreateShareableLink(link_data, link_id, 0)
    \/ \E photo_id \in UuidPool(DelUuids) : GetPhoto(photo_id)
    \/ \E photo_id \in UuidPool(DelUuids) : DeletePhoto(photo_id)
    \/ \E photo_id \in UuidPool(DelUuids) : delete_photo(photo_id)

SpecDelete == Init /\ [][NextDelete]_vars

(***************************************************************************)
(* Properties of deletion.                                                 *)
(***************************************************************************)
\* A call of delete_photo on the service that defines it
DeleteStep == req'.op = "delete_photo" /\ (req' # req \/ simple' # simple)

\* C19: delete_photo returns true exactly when a row of that id was stored
\* and was removed; on an id that is not stored (deleted before, or never
\* created) it returns false and changes nothing.
C19_TrueIffRemoved ==
    [][DeleteStep =>
          /\ ret'.simple.tag = "some"
          /\ ret'.simple.val = SimpleHas(simple, req'.photo_id)
          /\ ~SimpleHas(simple', req'.photo_id)
          /\ ~SimpleHas(simple, req'.photo_id) => simple' = simple]_vars

\* A call of the delete_photo route
DeleteRouteStep == req'.op = "delete_photo_route"

\* The rows of a store other than the photo row of photo_id
MockOthers(d, photo_id) ==
    { d[i] : i \in { j \in 1..Len(d) : d[j].key # S_PHOTO \o photo_id } }

DynOthers(tbl, photo_id) == { x \in tbl : x.PK # S_PHOTO \o photo_id }

\* C20: for a stored photo p the delete_photo route removes p's record on
\* each backend get_db_service can select (the in-memory and the durable
\* one), so that get_photo(p) is absent afterwards, and leaves every other
\* row, the comments and share links of p included, stored and unchanged.
C20_RouteRemoves ==
    [][DeleteRouteStep =>
          /\ MockGetPhoto(data, req'.photo_id).tag = "some"
                => /\ MockGetPhoto(data', req'.photo_id) = NoneVal
                   /\ MockOthers(data', req'.photo_id) = MockOthers(data, req'.photo_id)
          /\ DynGetPhoto(table, req'.photo_id).tag = "some"
                => /\ DynGetPhoto(table', req'.photo_id) = NoneVal
                   /\ DynOthers(table', req'.photo_id) = DynOthers(table, req'.photo_id)]_vars

(***************************************************************************)
(* Properties of the stored photos and users (Spec).                       *)
(***************************************************************************)
\* The rows of a kind in each store
MockRowsOf(d, prefix) ==
    { d[i].item : i \in { j \in 1..Len(d) : StartsWith(d[j].key, prefix) } }

DynRowsOf(tbl, prefix) == { x \in tbl : StartsWith(x.PK, prefix) }

SimpleRowsOf(tbl, kind) == { x \in tbl : TypeOf(x) = kind }

\* Every row of before that is still stored under the same identifier has
\* the same value of field
FieldKept(before, after, idField, field) ==
    \A x \in before : \A y \in after :
        (x[idField] = y[idField] /\ field \in DOMAIN x) =>
            (field \in DOMAIN y /\ y[field] = x[field])

\* C21: the user_id of a stored photo is the one it was created with: no
\* operation, update_photo with any field mapping included, changes it.
C21_OwnerKept ==
    [][/\ FieldKept(MockRowsOf(data, S_PHOTO), MockRowsOf(data', S_PHOTO),
                    "photo_id", "user_id")
       /\ FieldKept(DynRowsOf(table, S_PHOTO), DynRowsOf(table', S_PHOTO), "PK", "user_id")
       /\ FieldKept(SimpleRowsOf(simple, "PHOTO"), SimpleRowsOf(simple', "PHOTO"),
                    "id", "user_id")]_vars

(***************************************************************************)
(* The get_current_user_profile route: get_user, then create_user when the *)
(* user is absent.  On the durable backend the two calls are separate      *)
(* requests; the in-memory backend runs both without yielding.             *)
(***************************************************************************)
\* The authenticated users of this specification
ProfileUsers == { [user_id |-> <<120>>, email |-> <<101>>, first_name |-> <<65>>] }

\* user_data of the route: the five keys read from current_user with .get
ProfileUserData(current_user) ==
    [ id |-> current_user.user_id,
      email |-> Get(current_user, "email", None),
      first_name |-> Get(current_user, "first_name", None),
      last_name |-> Get(current_user, "last_name", None),
      profile_image_url |-> Get(current_user, "profile_image_url", None) ]

\* The route is called: get_user is answered by every backend; the
\* in-memory backend goes on to create_user at once when the user is absent.
ProfileCall(c, current_user) ==
    LET user_id == current_user.user_id
        user_data == ProfileUserData(current_user)
        mockNew == MockUserItem(user_data, user_id, Isoformat(clock))
    IN  /\ pc[c] = "idle"
        /\ pc' = [pc EXCEPT ![c] = "sent"]
        /\ sent' = [sent EXCEPT ![c] = Some([ user_id |-> user_id,
                                              user_data |-> user_data,
                                              user |-> DynGetUser(table, user_id) ])]
        /\ data' = IF MockGetUser(data, user_id).tag = "none"
                   THEN DictSet(data, S_USER \o user_id, mockNew)
                   ELSE data
        /\ req' = [op |-> "get_current_user_profile", current_user |-> current_user,
                   caller |-> c]
        /\ ret' = [ mock |-> IF MockGetUser(data, user_id).tag = "none"
                             THEN Some(mockNew) ELSE MockGetUser(data, user_id),
                    dyn |-> NoneVal,
                    simple |-> Some(SimpleGetUser(user_id, clock)) ]
        /\ UNCHANGED <<clock, table, simple, issued>>

\* The durable backend's second request: create_user (a put_item) when its
\* get_user had found nothing, whatever the table holds by now.
ProfileCreate(c) ==
    LET m == sent[c].val
        dynNew == DynUserItem(m.user_data, m.user_id, Isoformat(clock))
    IN  /\ pc[c] = "sent"
        /\ "user_data" \in DOMAIN m
        /\ pc' = [pc EXCEPT ![c] = "done"]
        /\ table' = IF m.user.tag = "none" THEN DynPutItem(table, dynNew) ELSE table
        /\ req' = [op |-> "profile_create_user", user_id |-> m.user_id, caller |-> c]
        /\ ret' = [ mock |-> NoneVal,
                    dyn |-> IF m.user.tag = "none" THEN Some(dynNew) ELSE m.user,
                    simple |-> NoneVal ]
        /\ UNCHANGED <<clock, data, simple, sent, issued>>

ProfileTick ==
    /\ clock < ClockStart + ProfTicks
    /\ clock' = clock + 1
    /\ UNCHANGED <<data, table, simple, req, ret, pc, sent, issued>>

(***************************************************************************)
(* SpecProfile: users created by create_user (also a second time under the *)
(* same id), updated, and created on first login by concurrent requests.   *)
(***************************************************************************)
\* user_data that names its id
ProfileUserInputs == { [id |-> <<120>>, first_name |-> <<65>>] }

NextProfile ==
    \/ ProfileTick
    \/ \E user_data \in ProfileUserInputs, uuid \in UuidPool(CrudUuids) :
          CreateUser(user_data, uuid)
    \/ \E user_id \in CrudUserIds, updates \in UserUpdates : UpdateUser(user_id, updates)
    \/ \E c \in Callers, current_user \in ProfileUsers : ProfileCall(c, current_user)
    \/ \E c \in Callers : ProfileCreate(c)

SpecProfile == Init /\ [][NextProfile]_vars

\* C22: the created_at of every stored user, photo, comment and share link
\* is the value assigned when the entity was first created: no later
\* operation (an update, an increment, create_user called again with the
\* same id) changes it.
C22_CreatedAtKept ==
    [][/\ \A prefix \in {S_USER, S_PHOTO, S_COMMENT, S_SHARE_LINK} :
             \A i \in 1..Len(data) : \A j \in 1..Len(data') :
                 (StartsWith(data[i].key, prefix) /\ data'[j].key = data[i].key)
                    => data'[j].item.created_at = data[i].item.created_at
       /\ FieldKept(DynRowsOf(table, <<>>), DynRowsOf(table', <<>>), "SK", "created_at")
       /\ FieldKept(simple, simple', "id", "created_at")]_vars

(***************************************************************************)
(* The comment routes.  Each backend stands in the place of db_service;    *)
(* current_user is the caller's user id, None for a caller without one.    *)
(***************************************************************************)
\* require_authentication: no user, 401
Unauthenticated == HTTPException(401, "Authentication required")

\* limit=1000 of the lookup in update_comment and delete_comment
FindLimit == 1000

PhotoNeverMissing(photo) == FALSE

\* `if not photo` of the create_comment route
PhotoMissing(photo) == photo.tag = "none"

\* What the create_comment route does with the photo lookup
CommentOutcome(photo, current_user) ==
    IF current_user = None THEN Unauthenticated
    ELSE IF photo.tag = "raise" THEN HTTPException(500, "Failed to create comment")
    ELSE IF PhotoMissing(photo) THEN HTTPException(404, "Photo not found")
    ELSE Some("create")

\* comment_dict = comment_data.dict(); comment_dict['user_id'] = current_user['user_id']
CommentDict(body, current_user) == [body EXCEPT !["user_id"] = current_user]

create_comment(body, current_user, comment_id) ==
    LET mockOut == CommentOutcome(MockGetPhoto(data, body.photo_id), current_user)
        dynOut == CommentOutcome(DynGetPhoto(table, body.photo_id), current_user)
        simpleOut == CommentOutcome(SimpleGetPhoto(simple, body.photo_id), current_user)
        comment_dict == CommentDict(body, current_user)
        timestamp == Isoformat(clock)
        mockItem == MockCommentItem(comment_dict, comment_id, timestamp)
        dynItem == DynCommentItem(comment_dict, comment_id, timestamp)
        simpleItem == SimpleCommentItem(comment_dict, comment_id, timestamp)
    IN  /\ data' = IF mockOut.tag = "some"
                   THEN DictSet(data, S_COMMENT \o comment_id, mockItem) ELSE data
        /\ table' = IF dynOut.tag = "some" THEN DynPutItem(table, dynItem) ELSE table
        /\ simple' = IF simpleOut.tag = "some" THEN SimplePutItem(simple, simpleItem) ELSE simple
        /\ req' = [op |-> "create_comment_route", body |-> body, current_user |-> current_user]
        /\ ret' = [ mock |-> IF mockOut.tag = "some" THEN Some(mockItem) ELSE mockOut,
                    dyn |-> IF dynOut.tag = "some" THEN Some(dynItem) ELSE dynOut,
                    simple |-> IF simpleOut.tag = "some" THEN Some(simpleItem) ELSE simpleOut ]
        /\ UNCHANGED <<clock, pc, sent, issued>>

\* The loop of update_comment and delete_comment: the first listed comment
\* with the id, None when there is none
FindComment(comments, comment_id) ==
    LET hits == { i \in 1..Len(comments) : Get(comments[i], "comment_id", None) = comment_id }
    IN  IF hits = {} THEN NoneVal
        ELSE Some(comments[CHOOSE i \in hits : \A j \in hits : i <= j])

\* What the two routes answer, from list_photo_comments("", limit=1000);
\* `done` is the answer to the comment's author
CommentRouteOutcome(listed, comment_id, current_user, done) ==
    IF current_user = None THEN Unauthenticated
    ELSE IF listed.tag = "raise" THEN HTTPException(500, "Failed")
    ELSE IF FindComment(listed.val, comment_id).tag = "none"
    THEN HTTPException(404, "Comment not found")
    ELSE IF FindComment(listed.val, comment_id).val.user_id # current_user
    THEN HTTPException(403, "Not authorized")
    ELSE IF done = None THEN Some(FindComment(listed.val, comment_id).val)
    ELSE Some([message |-> done])

CommentRouteRemoves(d, comment_id) == DictSet(d, S_COMMENT \o comment_id, [removed |-> TRUE])

\* The in-memory map after update_comment or delete_comment: the routes
\* call no method of db_service that writes
CommentRouteStore(d, comment_id) == d

CommentRoute(op, comment_id, current_user, done) ==
    /\ data' = CommentRouteStore(data, comment_id)
    /\ req' = [op |-> op, comment_id |-> comment_id, current_user |-> current_user]
    /\ \E d \in DynListPhotoComments(table, <<>>, FindLimit),
          s \in SimpleListPhotoComments(simple, <<>>, FindLimit) :
          ret' = [ mock |-> CommentRouteOutcome(Some(MockListPhotoComments(data, <<>>, FindLimit)),
                                                comment_id, current_user, done),
                   dyn |-> CommentRouteOutcome(d, comment_id, current_user, done),
                   simple |-> CommentRouteOutcome(s, comment_id, current_user, done) ]
    /\ UNCHANGED <<clock, table, simple, pc, sent, issued>>

update_comment(comment_id, current_user) ==
    CommentRoute("update_comment_route", comment_id, current_user, None)

delete_comment(comment_id, current_user) ==
    CommentRoute("delete_comment_route", comment_id, current_user, "Comment deletion initiated")

(***************************************************************************)
(* SpecComments: photos stored by create_photo, comments written, changed  *)
(* and removed through the routes, photos removed through their route.     *)
(***************************************************************************)
\* The callers: two users and a caller without credentials
RouteCallers == LinkRouteUsers \cup {None}

MockPhotoIds == { x.photo_id : x \in MockRowsOf(data, S_PHOTO) }

MockCommentIds == { x.comment_id : x \in MockRowsOf(data, S_COMMENT) }

\* Bodies of create_comment: a stored photo or an unknown one; the user_id
\* of the body is another user's
CommentBodies ==
    { [photo_id |-> p, user_id |-> <<121>>, content |-> <<104>>] :
         p \in MockPhotoIds \cup {UnknownLinkId} }

\* Enough identifiers for the photos and the comments, and one to spare
ComUuids == ComPhotos + ComComments + 1

NextComments ==
    \/ \E photo_data \in PhotoInputs, photo_id \in NextUuid(ComUuids) :
          /\ Cardinality(MockPhotoIds) < ComPhotos
          /\ photo_data["user_id"] = <<120>>
          /\ CreatePhoto(photo_data, photo_id)
    \/ \E body \in CommentBodies, current_user \in RouteCallers,
          comment_id \in NextUuid(ComUuids) :
          /\ Cardinality(MockCommentIds) < ComComments \/ body.photo_id = UnknownLinkId
          /\ create_comment(body, current_user, comment_id)
    \/ \E comment_id \in MockCommentIds \cup {UnknownLinkId}, current_user \in RouteCallers :
          update_comment(comment_id, current_user)
    \/ \E comment_id \in MockCommentIds \cup {UnknownLinkId}, current_user \in RouteCallers :
          delete_comment(comment_id, current_user)
    \/ \E photo_id \in MockPhotoIds \cup {UnknownLinkId} : delete_photo(photo_id)

SpecComments == Init /\ [][NextComments]_vars

\* The comment rows of the durable table
DynCommentRows(tbl) == { x \in tbl : StartsWith(x.SK, S_COMMENT) }

CommentCreateStep == req'.op = "create_comment_route"

\* C23: on the backends db_service can be, every stored comment carries the
\* photo_id of a stored photo; the create_comment route answers 404 to an
\* authenticated caller and stores nothing when the photo is absent.
C23_CommentsHavePhoto ==
    [][/\ \A c \in MockRowsOf(data', S_COMMENT) :
             "photo_id" \in DOMAIN c /\ MockGetPhoto(data', c.photo_id).tag = "some"
       /\ \A c \in DynCommentRows(table') :
             "photo_id" \in DOMAIN c /\ DynGetPhoto(table', c.photo_id).tag = "some"
       /\ (CommentCreateStep /\ req'.current_user # None) =>
             /\ MockGetPhoto(data, req'.body.photo_id).tag = "none" =>
                   (ret'.mock = HTTPException(404, "Photo not found") /\ data' = data)
             /\ DynGetPhoto(table, req'.body.photo_id).tag = "none" =>
                   (ret'.dyn = HTTPException(404, "Photo not found") /\ table' = table)]_vars

\* A comment is stored on both backends, its photo beside it, and a request
\* for an absent photo has been answered.
C23_Witness ==
    /\ MockRowsOf(data, S_COMMENT) # {}
    /\ DynCommentRows(table) # {}
    /\ req.op = "create_comment_route"
    /\ req.current_user # None
    /\ req.body.photo_id = UnknownLinkId
    /\ ret.mock = HTTPException(404, "Photo not found")

CommentRouteStep ==
    req'.op \in {"update_comment_route", "delete_comment_route"}

ClientCalls == {"describe_table", "create_table", "update_time_to_live"}

\* DynamoDBService.create_table_if_not_exists: describe_table, and for a
\* missing table create_table and update_time_to_live, whose exception is
\* caught and printed
DynCreateTable(exists, failing) ==
    IF failing = "describe_table" THEN Raise("ClientError")
    ELSE IF exists THEN NoneVal
    ELSE IF failing = "create_table" THEN Raise("ClientError")
    ELSE NoneVal

\* The client calls DynamoDBService.create_table_if_not_exists gets to
DynCallsMade(exists, failing) ==
    IF failing = "describe_table" \/ exists THEN {"describe_table"}
    ELSE IF failing = "create_table" THEN {"describe_table", "create_table"}
    ELSE ClientCalls

\* SimpleDynamoDBService.create_table_if_not_exists: describe_table inside
\* try/except Exception; the method returns None either way
SimpleCreateTable(exists, failing) == NoneVal

create_table_if_not_exists(exists, failing) ==
    /\ req' = [op |-> "create_table_if_not_exists", exists |-> exists, failing |-> failing,
               failed |-> (IF failing \in DynCallsMade(exists, failing) THEN {"dyn"} ELSE {})
                          \cup (IF failing = "describe_table" THEN {"simple"} ELSE {})]
    /\ ret' = [ mock |-> Some(TRUE),
                dyn |-> DynCreateTable(exists, failing),
                simple |-> SimpleCreateTable(exists, failing) ]
    /\ UNCHANGED <<clock, data, table, simple, pc, sent, issued>>

\* S3Service.delete_file: True, or False when delete_object raised
S3DeleteFile(fails) == Some(~fails)

delete_file(fails) ==
    /\ req' = [op |-> "delete_file", fails |-> fails,
               failed |-> IF fails THEN Backends ELSE {}]
    /\ ret' = [b \in Backends |-> S3DeleteFile(fails)]
    /\ UNCHANGED <<clock, data, table, simple, pc, sent, issued>>

\* SimpleDynamoDBService.delete_photo when delete_item may raise: False then
DeletePhotoFailing(photo_id, fails) ==
    /\ simple' = IF fails THEN simple ELSE SimpleDeleteItem(simple, photo_id)
    /\ req' = [op |-> "delete_photo", photo_id |-> photo_id, fails |-> fails,
               failed |-> IF fails THEN {"simple"} ELSE {}]
    /\ ret' = [ mock |-> Raise("AttributeError"),
                dyn |-> Raise("AttributeError"),
                simple |-> Some(IF fails THEN FALSE ELSE SimpleDeleted(simple, photo_id)) ]
    /\ UNCHANGED <<clock, data, table, pc, sent, issued>>

\* The delete_photo route with real services: a found photo's file is
\* deleted from S3 first and the result of delete_file is not looked at.
\* The in-memory service runs with USE_MOCK_SERVICES and makes no S3 call.
delete_photo_real(photo_id, s3_fails) ==
    /\ simple' = IF SimpleGetPhoto(simple, photo_id).tag = "none"
                 THEN simple ELSE SimpleDeleteItem(simple, photo_id)
    /\ req' = [op |-> "delete_photo_route", photo_id |-> photo_id, s3_fails |-> s3_fails,
               failed |-> IF ~s3_fails THEN {}
                          ELSE (IF DynGetPhoto(table, photo_id).tag = "some"
                                THEN {"dyn"} ELSE {})
                               \cup (IF SimpleGetPhoto(simple, photo_id).tag = "some"
                                     THEN {"simple"} ELSE {})]
    /\ ret' = [ mock |-> DeletePhotoResponse(MockGetPhoto(data, photo_id),
                                             Raise("AttributeError")),
                dyn |-> DeletePhotoResponse(DynGetPhoto(table, photo_id),
                                            Raise("AttributeError")),
                simple |-> DeletePhotoResponse(SimpleGetPhoto(simple, photo_id),
                                               Some(SimpleDeleted(simple, photo_id))) ]
    /\ UNCHANGED <<clock, data, table, pc, sent, issued>>

FailTick ==
    /\ clock < ClockStart + FailTicks
    /\ clock' = clock + 1
    /\ UNCHANGED <<data, table, simple, req, ret, pc, sent, issued>>

(***************************************************************************)
(* SpecFail: the table set up, photos stored and deleted, with backend     *)
(* calls that may fail.                                                    *)
(***************************************************************************)
NextFail ==
    \/ FailTick
    \/ \E photo_data \in PhotoInputs, photo_id \in NextUuid(FailPhotos + 1) :
          /\ Cardinality(MockPhotoIds) < FailPhotos
          /\ CreatePhoto(photo_data, photo_id)
    \/ \E exists \in BOOLEAN, failing \in ClientCalls \cup {"none"} :
          create_table_if_not_exists(exists, failing)
    \/ \E fails \in BOOLEAN : delete_file(fails)
    \/ \E photo_id \in MockPhotoIds \cup {UnknownLinkId}, fails \in BOOLEAN :
          DeletePhotoFailing(photo_id, fails)
    \/ \E photo_id \in MockPhotoIds \cup {UnknownLinkId}, s3_fails \in BOOLEAN :
          delete_photo_real(photo_id, s3_fails)

SpecFail == Init /\ [][NextFail]_vars

\* A result that tells the caller of a failure: an exception, or False
IsFailure(r) == r.tag = "raise" \/ r = Some(FALSE)

\* C25: a backend or blob-store call that fails inside an operation is
\* returned or raised to the operation's caller as a failure; no operation
\* catches the exception and answers as it does when the call succeeded.
C25_FailuresReported ==
    [][("failed" \in DOMAIN req' /\ (req' # req \/ ret' # ret))
          => \A b \in req'.failed : IsFailure(ret'[b])]_vars

(***************************************************************************)
(* The update_photo route.  The handler takes photo_id and the body only:  *)
(* it declares no dependency on the caller's credentials, which the        *)
(* request carries all the same (current_user, None when there are none).  *)
(***************************************************************************)
\* PhotoUpdate: title of 1 to 255 characters when given
ValidPhotoUpdate(body) ==
    "title" \in DOMAIN body => (Len(body.title) >= 1 /\ Len(body.title) <= 255)

\* What the route answers before it calls db_service.update_photo
UpdateOutcome(photo, body) ==
    IF ~ValidPhotoUpdate(body) THEN HTTPException(422, "validation")
    ELSE IF photo.tag = "none" THEN HTTPException(404, "Photo not found")
    ELSE IF DOMAIN body = {} THEN Some(photo.val)
    ELSE [tag |-> "update"]

update_photo(photo_id, body, current_user) ==
    LET key == S_PHOTO \o photo_id
        mockOut == UpdateOutcome(MockGetPhoto(data, photo_id), body)
        dynOut == UpdateOutcome(DynGetPhoto(table, photo_id), body)
        simpleOut == UpdateOutcome(SimpleGetPhoto(simple, photo_id), body)
        mockNew == MockUpdated(DictGet(data, key), body, clock)
        simpleNew == SimpleUpdatedItem(simple, photo_id,
                                       DynUpdateSets(FilteredUpdates(body), clock))
    IN  /\ data' = IF mockOut.tag = "update" THEN DictSet(data, key, mockNew) ELSE data
        /\ simple' = IF simpleOut.tag = "update" THEN SimplePutItem(simple, simpleNew)
                     ELSE simple
        /\ req' = [op |-> "update_photo_route", photo_id |-> photo_id, body |-> body,
                   current_user |-> current_user]
        /\ ret' = [ mock |-> IF mockOut.tag = "update" THEN Some(mockNew) ELSE mockOut,
                    dyn |-> IF dynOut.tag = "update"
                            THEN HTTPException(500, "Failed to update photo: AttributeError")
                            ELSE dynOut,
                    simple |-> IF simpleOut.tag = "update" THEN Some(simpleNew)
                               ELSE simpleOut ]
        /\ UNCHANGED <<clock, table, pc, sent, issued>>

(***************************************************************************)
(* SpecPhotoRoutes: photos stored by create_photo, changed and deleted     *)
(* through the routes by their owner, by another user and by a caller      *)
(* without credentials.                                                    *)
(***************************************************************************)
\* Bodies of PUT /photos/{photo_id}: nothing set, a title, an empty title,
\* a description
PhotoUpdateBodies ==
    { <<>>, [title |-> <<84>>], [title |-> <<>>], [description |-> <<108>>] }

NextPhotoRoutes ==
    \/ Tick
    \/ \E photo_data \in PhotoInputs, photo_id \in NextUuid(RoutePhotos + 1) :
          /\ Cardinality(MockPhotoIds) < RoutePhotos
          /\ CreatePhoto(photo_data, photo_id)
    \/ \E photo_id \in MockPhotoIds \cup {UnknownLinkId}, body \in PhotoUpdateBodies,
          current_user \in RouteCallers :
          update_photo(photo_id, body, current_user)
    \/ \E photo_id \in MockPhotoIds \cup {UnknownLinkId} : delete_photo(photo_id)

SpecPhotoRoutes == Init /\ [][NextPhotoRoutes]_vars

\* C26: the update_photo route changes a photo only when the caller is
\* authenticated as the photo's user_id; a request of another user or of an
\* anonymous caller leaves the photo as it was, on every backend.
C26_OwnerOnly ==
    [][(req'.op = "update_photo_route" /\ clock' = clock)
          => \A x \in MockRowsOf(data, S_PHOTO) :
                 x.user_id # req'.current_user => x \in MockRowsOf(data', S_PHOTO)]_vars

(***************************************************************************)
(* The upload_photo route.                                                 *)
(***************************************************************************)
MAX_FILE_SIZE_MB == 100

\* max_size_bytes = MAX_FILE_SIZE_MB * 1024 * 1024
max_size_bytes == MAX_FILE_SIZE_MB * 1024 * 1024

\* str.lower() on the letters A..Z
Lower(str) == [i \in 1..Len(str) |-> IF str[i] >= 65 /\ str[i] <= 90 THEN str[i] + 32 ELSE str[i]]

\* Path(filename).suffix of a name without directories: from the last dot
\* on, unless that dot leads or ends the name
Suffix(filename) ==
    LET dots == { i \in 1..Len(filename) : filename[i] = 46 }
        last == CHOOSE i \in dots : \A j \in dots : j <= i
    IN  IF dots = {} THEN <<>>
        ELSE IF last = 1 \/ last = Len(filename) THEN <<>>
        ELSE SubSeq(filename, last, Len(filename))

get_file_extension(filename) == Lower(Suffix(filename))

\* .jpg .jpeg .png .gif .webp .bmp
ALLOWED_IMAGE_EXTENSIONS ==
    { <<46, 106, 112, 103>>, <<46, 106, 112, 101, 103>>, <<46, 112, 110, 103>>,
      <<46, 103, 105, 102>>, <<46, 119, 101, 98, 112>>, <<46, 98, 109, 112>> }

is_image_file(filename) == get_file_extension(filename) \in ALLOWED_IMAGE_EXTENSIONS

\* The local user_id where the route first reads it, building file_path or
\* calling upload_file: its assignment comes further down in the function
UserIdRead == Raise("UnboundLocalError")

\* What the route answers before it gets to create_photo
UploadOutcome(filename, file_size) ==
    IF filename = <<>> THEN HTTPException(400, "No file provided")
    ELSE IF ~is_image_file(filename) THEN HTTPException(400, "File must be an image")
    ELSE IF file_size > max_size_bytes THEN HTTPException(400, "File too large")
    ELSE IF UserIdRead.tag = "raise"
    THEN HTTPException(500, "Failed to upload photo: UnboundLocalError")
    ELSE Some("create")

\* 'demo-user'
DemoUserId == <<100, 101, 109, 111>>

\* user_id = current_user['user_id'] if current_user else 'demo-user'
UploadUserId(current_user) == IF current_user = None THEN DemoUserId ELSE current_user

\* photo_data of the route, with file_path as the development branch builds it
UploadPhotoData(title, filename, file_size, current_user) ==
    [ user_id |-> UploadUserId(current_user),
      title |-> title,
      description |-> <<>>,
      file_path |-> <<47>> \o UploadUserId(current_user) \o <<47>> \o filename,
      file_size |-> file_size ]

upload_photo(title, filename, file_size, current_user, photo_id) ==
    LET out == UploadOutcome(filename, file_size)
        photo_data == UploadPhotoData(title, filename, file_size, current_user)
        timestamp == Isoformat(clock)
        mockItem == MockPhotoItem(photo_data, photo_id, timestamp)
        dynItem == DynPhotoItem(photo_data, photo_id, timestamp)
        simpleItem == SimplePhotoItem(photo_data, photo_id, timestamp)
    IN  /\ data' = IF out.tag = "some" THEN DictSet(data, MockPhotoKey(photo_id), mockItem)
                   ELSE data
        /\ table' = IF out.tag = "some" THEN DynPutItem(table, dynItem) ELSE table
        /\ simple' = IF out.tag = "some" THEN SimplePutItem(simple, simpleItem) ELSE simple
        /\ req' = [op |-> "upload_photo", title |-> title, filename |-> filename,
                   file_size |-> file_size, current_user |-> current_user]
        /\ ret' = [ mock |-> IF out.tag = "some"
                             THEN Some([photo |-> mockItem,
                                        message |-> "Photo uploaded successfully"])
                             ELSE out,
                    dyn |-> IF out.tag = "some"
                            THEN Some([photo |-> dynItem,
                                       message |-> "Photo uploaded successfully"])
                            ELSE out,
                    simple |-> IF out.tag = "some"
                               THEN Some([photo |-> simpleItem,
                                          message |-> "Photo uploaded successfully"])
                               ELSE out ]
        /\ UNCHANGED <<clock, pc, sent, issued>>

(***************************************************************************)
(* SpecUpload: photos uploaded through the route, beside photos stored by  *)
(* create_photo.                                                           *)
(***************************************************************************)
\* No name, a.png, a.PNG, a.txt, .png
UploadFilenames ==
    { <<>>, <<97, 46, 112, 110, 103>>, <<97, 46, 80, 78, 71>>, <<97, 46, 116, 120, 116>>,
      <<46, 112, 110, 103>> }

UploadSizes == { 1, max_size_bytes, max_size_bytes + 1 }

NextUpload ==
    \/ Tick
    \/ \E photo_data \in PhotoInputs, photo_id \in NextUuid(UploadPhotos + 1) :
          /\ Cardinality(MockPhotoIds) < UploadPhotos
          /\ CreatePhoto(photo_data, photo_id)
    \/ \E filename \in UploadFilenames, file_size \in UploadSizes,
          current_user \in RouteCallers, photo_id \in NextUuid(UploadPhotos + 1) :
          upload_photo(<<83>>, filename, file_size, current_user, photo_id)

SpecUpload == Init /\ [][NextUpload]_vars

ValidUpload(r) ==
    /\ r.op = "upload_photo"
    /\ r.filename # <<>>
    /\ is_image_file(r.filename)
    /\ r.file_size <= max_size_bytes

\* C27: a valid upload_photo request (a named image file within
\* MAX_FILE_SIZE_MB) stores exactly one new photo, owned by the current user
\* or by demo-user for a caller without credentials, with the title of the
\* upload, and the route answers with that photo and the success message.
C27_UploadStores ==
    [][(ValidUpload(req') /\ clock' = clock) =>
          /\ ret'.mock.tag = "some"
          /\ ret'.mock.val.message = "Photo uploaded successfully"
          /\ ret'.mock.val.photo.user_id = UploadUserId(req'.current_user)
          /\ ret'.mock.val.photo.title = req'.title
          /\ MockRowsOf(data', S_PHOTO) = MockRowsOf(data, S_PHOTO) \cup {ret'.mock.val.photo}
          /\ ret'.mock.val.photo \notin MockRowsOf(data, S_PHOTO)]_vars

(***************************************************************************)
(* The get_shared_photo route: get_shareable_link, increment_link_access,  *)
(* get_photo, get_user.  The in-memory service runs them without yielding; *)
(* on the durable services the increment is a request of its own, applied  *)
(* by the table when it arrives.                                           *)
(***************************************************************************)
\* The answer when get_shareable_link gave no link
LinkAnswer(share_link) ==
    IF share_link.tag = "raise"
    THEN HTTPException(500, "Failed to access shared photo")
    ELSE HTTPException(404, "Share link not found or expired")

\* The answer once the link is found and counted
SharedPhotoResponse(share_link, photo, user) ==
    IF photo.tag = "none" THEN HTTPException(404, "Photo not found")
    ELSE IF user.tag = "none" THEN HTTPException(404, "Photo owner not found")
    ELSE Some([link |-> share_link, photo |-> photo.val, user |-> user.val])

\* The in-memory map after the route: the found link counted once more
MockAccessed(d, link_id, now) ==
    IF MockGetShareableLink(d, link_id, now).tag = "some"
    THEN DictSet(d, S_SHARE_LINK \o link_id,
                 MockIncremented(DictGet(d, S_SHARE_LINK \o link_id), now))
    ELSE d

\* The in-memory service's answer; the link returned is the stored
\* dictionary itself, so it shows the new count
MockSharedPhoto(d, link_id, now) ==
    LET share_link == MockGetShareableLink(d, link_id, now)
        after == MockAccessed(d, link_id, now)
        photo == MockGetPhoto(after, share_link.val.photo_id)
    IN  IF share_link.tag # "some" THEN LinkAnswer(share_link)
        ELSE SharedPhotoResponse(DictGet(after, S_SHARE_LINK \o link_id), photo,
                                 IF photo.tag = "some"
                                 THEN MockGetUser(after, photo.val.user_id) ELSE NoneVal)

get_shared_photo(c, link_id) ==
    LET dynLink == DynGetShareableLink(table, link_id, clock)
        simpleLink == SimpleGetShareableLink(simple, link_id, clock)
        pending == "some" \in {dynLink.tag, simpleLink.tag}
    IN  /\ pc[c] = "idle"
        /\ pc' = [pc EXCEPT ![c] = IF pending THEN "sent" ELSE "done"]
        /\ sent' = [sent EXCEPT ![c] =
                       Some(Merge(IncRequest(link_id, clock),
                                  [dyn_link |-> dynLink, simple_link |-> simpleLink]))]
        /\ data' = MockAccessed(data, link_id, clock)
        /\ req' = [op |-> "get_shared_photo", link_id |-> link_id, caller |-> c]
        /\ ret' = [ mock |-> MockSharedPhoto(data, link_id, clock),
                    dyn |-> IF dynLink.tag = "some" THEN NoneVal ELSE LinkAnswer(dynLink),
                    simple |-> IF simpleLink.tag = "some" THEN NoneVal
                               ELSE LinkAnswer(simpleLink) ]
        /\ UNCHANGED <<clock, table, simple, issued>>

\* The increment of caller c's request reaches the table; the route then
\* reads the photo and its owner and answers.
SharedPhotoApply(c) ==
    LET m == sent[c].val
        key == S_SHARE_LINK \o m.link_id
        dynAfter == DynPutItem(table,
               AddApplied(IF DynHas(table, key, key) THEN DynItem(table, key, key)
                          ELSE [PK |-> key, SK |-> key], m))
        simpleAfter == SimplePutItem(simple,
               AddApplied(IF SimpleHas(simple, m.link_id) THEN SimpleItem(simple, m.link_id)
                          ELSE [id |-> m.link_id], m))
        dynPhoto == DynGetPhoto(table, m.dyn_link.val.photo_id)
        simplePhoto == SimpleGetPhoto(simple, m.simple_link.val.photo_id)
    IN  /\ pc[c] = "sent"
        /\ "dyn_link" \in DOMAIN m
        /\ pc' = [pc EXCEPT ![c] = "done"]
        /\ table' = IF m.dyn_link.tag = "some" THEN dynAfter ELSE table
        /\ simple' = IF m.simple_link.tag = "some" THEN simpleAfter ELSE simple
        /\ req' = [op |-> "shared_photo_applied", link_id |-> m.link_id, caller |-> c]
        /\ ret' = [ mock |-> NoneVal,
                    dyn |-> IF m.dyn_link.tag # "some" THEN LinkAnswer(m.dyn_link)
                            ELSE SharedPhotoResponse(m.dyn_link.val, dynPhoto,
                                     IF dynPhoto.tag = "some"
                                     THEN DynGetUser(table, dynPhoto.val.user_id)
                                     ELSE NoneVal),
                    simple |-> IF m.simple_link.tag # "some" THEN LinkAnswer(m.simple_link)
                               ELSE SharedPhotoResponse(m.simple_link.val, simplePhoto,
                                        IF simplePhoto.tag = "some"
                                        THEN Some(SimpleGetUser(simplePhoto.val.user_id, clock))
                                        ELSE NoneVal) ]
        /\ UNCHANGED <<clock, data, sent, issued>>

(***************************************************************************)
(* SpecAccess: a user, a photo of theirs and a link to it; the link is     *)
(* followed by concurrent visitors while time passes and the table's       *)
(* time-to-live removes what has expired.                                  *)
(***************************************************************************)
NextAccess ==
    \/ LinkTick
    \/ \E user_data \in ProfileUserInputs, uuid \in UuidPool(CrudUuids) :
          /\ NumRows("USER") = 0
          /\ CreateUser(user_data, uuid)
    \/ \E photo_data \in PhotoInputs, photo_id \in NextUuid(ShareUuids) :
          /\ NumRows("USER") = 1 /\ NumRows("PHOTO") = 0
          /\ photo_data["user_id"] = <<120>>
          /\ CreatePhoto(photo_data, photo_id)
    \/ \E link_data \in DelLinkInputs, link_id \in NextUuid(ShareUuids) :
          /\ issued = {}
          /\ CreateShareableLink(link_data, link_id, 0)
    \/ \E c \in Callers, link_id \in LinkIdInputs : get_shared_photo(c, link_id)
    \/ \E c \in Callers : SharedPhotoApply(c)
    \/ TtlDelete

SpecAccess == Init /\ [][NextAccess]_vars

SharedPhotoStep == req'.op = "get_shared_photo" /\ pc' # pc /\ req'.link_id \in IssuedIds

\* C29: for an Active link whose photo and owner exist, get_shared_photo
\* succeeds, returns the photo the link was created for and increases the
\* link's access_count by exactly 1; once the clock is past expires_at the
\* same request is answered 404, on the in-memory and on the durable backend.
C29_ActiveThenAbsent ==
    [][SharedPhotoStep =>
          IF clock > Fromisoformat(MockLink(req'.link_id).expires_at)
          THEN /\ ret'.mock = HTTPException(404, "Share link not found or expired")
               /\ ret'.dyn = HTTPException(404, "Share link not found or expired")
          ELSE /\ ret'.mock.tag = "some"
               /\ ret'.mock.val.photo.photo_id = MockLink(req'.link_id).photo_id
               /\ DictGet(data', S_SHARE_LINK \o req'.link_id).access_count
                     = MockLink(req'.link_id).access_count + 1]_vars

(***************************************************************************)
(* SpecAtomic: the in-memory service under concurrent callers.  None of    *)
(* its methods awaits, so on the event loop each runs from its first       *)
(* statement to its return before any other coroutine does: one step of    *)
(* this specification is one whole method, and the states between steps    *)
(* are all that another operation can observe.  The durable services'      *)
(* increments stay in flight between their two steps.                      *)
(***************************************************************************)
NextAtomic ==
    \/ Tick
    \/ \E photo_data \in PhotoInputs, photo_id \in NextUuid(AtomUuids) :
          /\ MockPhotoIds = {}
          /\ photo_data["user_id"] = <<120>>
          /\ CreatePhoto(photo_data, photo_id)
    \/ \E photo_id \in MockPhotoIds, updates \in PhotoUpdates :
          /\ "title" \in DOMAIN updates
          /\ UpdatePhoto(photo_id, updates)
    \/ \E link_data \in DelLinkInputs, link_id \in NextUuid(AtomUuids) :
          /\ issued = {}
          /\ CreateShareableLink(link_data, link_id, 0)
    \/ \E c \in Callers, link_id \in IssuedIds : IncCall(c, link_id)
    \/ \E c \in Callers : IncApply(c)

SpecAtomic == Init /\ [][NextAtomic]_vars

\* The row a method left whole: a created row carries both timestamps of
\* its creation; a changed row carries the updated_at of the change, and a
\* changed access_count is one more than the count stored before.
WholeRow(d, key, row, now) ==
    IF ~DictHas(d, key) THEN row.updated_at = row.created_at
    ELSE row # DictGet(d, key) =>
            /\ row.updated_at = Isoformat(now)
            /\ "access_count" \in DOMAIN row =>
                  row.access_count \in { DictGet(d, key).access_count,
                                         DictGet(d, key).access_count + 1 }

IndexUpdates == { [first_name |-> <<66>>], [GSI1SK |-> <<57>>] }

NextIndex ==
    \/ Tick
    \/ \E user_data \in ProfileUserInputs, uuid \in NextUuid(IndexUuids) :
          /\ NumRows("USER") < IndexRows
          /\ CreateUser(user_data, uuid)
    \/ \E user_id \in CrudUserIds, updates \in IndexUpdates :
          /\ DynHas(table, S_USER \o user_id, S_USER \o user_id)
          /\ UpdateUser(user_id, updates)
    \/ \E photo_data \in PhotoInputs, photo_id \in NextUuid(IndexUuids) :
          /\ NumRows("PHOTO") < IndexRows
          /\ CreatePhoto(photo_data, photo_id)
    \/ \E comment_data \in DelCommentInputs, comment_id \in NextUuid(IndexUuids) :
          /\ NumRows("COMMENT") < IndexRows
          /\ CreateComment(comment_data, comment_id)
    \/ \E link_data \in DelLinkInputs, link_id \in NextUuid(IndexUuids) :
          /\ NumRows("SHARE_LINK") < IndexRows
          /\ CreateShareableLink(link_data, link_id, 0)

SpecIndex == Init /\ [][NextIndex]_vars

\* The index keys a row of the durable table should carry, from its own
\* attributes
IndexKeysDerived(x) ==
    IF StartsWith(x.SK, S_COMMENT)
    THEN /\ {"GSI1PK", "GSI1SK"} \subseteq DOMAIN x
         /\ x.GSI1PK = S_USER \o x.user_id
         /\ x.GSI1SK = S_COMMENT \o x.created_at
    ELSE IF StartsWith(x.PK, S_USER)
    THEN /\ {"GSI1PK", "GSI1SK"} \subseteq DOMAIN x
         /\ x.GSI1PK = S_USERS
         /\ x.GSI1SK = x.created_at
    ELSE IF StartsWith(x.PK, S_PHOTO)
    THEN /\ {"GSI1PK", "GSI1SK", "GSI2PK", "GSI2SK"} \subseteq DOMAIN x
         /\ x.GSI1PK = S_USER \o x.user_id
         /\ x.GSI1SK = S_PHOTO \o x.created_at
         /\ x.GSI2PK = S_PHOTOS
         /\ x.GSI2SK = x.created_at
    ELSE /\ {"GSI1PK", "GSI1SK"} \subseteq DOMAIN x
         /\ x.GSI1PK = S_PHOTO \o x.photo_id
         /\ x.GSI1SK = S_LINK \o x.created_at

\* C31: in the durable backend the secondary-index keys of every stored row
\* are the values derived from the row's own attributes, in every reachable
\* state; no operation sets them independently.
C31_IndexKeysDerived == \A x \in table : IndexKeysDerived(x)

(***************************************************************************)
(* SpecKeys: entities of the four kinds created under identifiers chosen   *)
(* to collide: the same identifier for every kind, and an identifier that  *)
(* itself begins with a type tag.                                          *)
(***************************************************************************)
\* "x", "USER#x"
KeyIds == { <<120>>, S_USER \o <<120>> }

NextKeys ==
    \/ \E id \in KeyIds : CreateUser([id |-> id], id)
    \/ \E photo_id \in KeyIds :
          CreatePhoto([user_id |-> <<120>>, file_path |-> <<47, 97>>], photo_id)
    \/ \E photo_id \in {<<120>>}, comment_id \in {<<120>>} :
          CreateComment([photo_id |-> photo_id, user_id |-> <<120>>, content |-> <<104>>],
                        comment_id)
    \/ \E link_id \in {<<120>>} :
          CreateShareableLink([photo_id |-> <<120>>, user_id |-> <<120>>,
                               expiration_days |-> MinExpirationDays], link_id, 0)

SpecKeys == Init /\ [][NextKeys]_vars

\* The kind of entity a create operation writes
KindCreated(op) ==
    IF op = "create_user" THEN "USER"
    ELSE IF op = "create_photo" THEN "PHOTO"
    ELSE IF op = "create_comment" THEN "COMMENT"
    ELSE "SHARE_LINK"

\* C32: the primary keys of entities of different kinds never coincide,
\* whatever the identifiers: a create of one kind leaves every stored row of
\* the other kinds in place, in the in-memory map and in the durable table.
C32_KindsApart ==
    [][/\ \A i \in 1..Len(data) :
             data[i].item.entity_type # KindCreated(req'.op)
                => \E j \in 1..Len(data') : data'[j] = data[i]
       /\ \A x \in table :
             x.entity_type # KindCreated(req'.op) => x \in table']_vars

\* A user, a photo, a comment and a share link are stored under the same
\* identifier, side by side in both stores.
C32_Witness ==
    /\ \A kind \in {"USER", "PHOTO", "COMMENT", "SHARE_LINK"} :
          /\ \E i \in 1..Len(data) :
                data[i].item.entity_type = kind /\ IdOfKey(data[i].key) = <<120>>
          /\ \E x \in table : x.entity_type = kind
    /\ Len(data) >= 4
    /\ \E i \in 1..Len(data) : data[i].key = S_PHOTO \o S_USER \o <<120>>

(***************************************************************************)
(* Expiry over time (SpecLink).                                            *)
(***************************************************************************)
\* The link has a stored expiry in map d and the time now is past it
ExpiredAt(d, now, link_id) ==
    /\ DictHas(d, S_SHARE_LINK \o link_id)
    /\ now > Fromisoformat(DictGet(d, S_SHARE_LINK \o link_id).expires_at)

\* C33 as stated: once a link has expired, every get_shareable_link for it
\* returns absent (None) in every backend, whatever ran in between.
C33_AlwaysNone ==
    [][\A link_id \in IssuedIds :
          (ExpiredAt(data, clock, link_id) /\ GetStep /\ req'.link_id = link_id)
             => \A b \in Backends : ret'[b] = NoneVal]_vars

\* C33 amended: expired is absorbing.  A link that has expired stays
\* expired whatever operation runs, increment_link_access included, and no
\* get_shareable_link returns it again: the in-memory backend returns None,
\* the durable ones return None or raise (KeyError, when the time-to-live
\* removed the row and an increment wrote it again without expires_at).
C33_ExpiredAbsorbing ==
    [][\A link_id \in IssuedIds :
          ExpiredAt(data, clock, link_id) =>
             /\ ExpiredAt(data', clock', link_id)
             /\ (GetStep /\ req'.link_id = link_id) =>
                   /\ ret'.mock = NoneVal
                   /\ \A b \in Backends : ret'[b].tag # "some"]_vars

\* An expired link has been counted once more after a get_shareable_link
\* found it absent, and the next get_shareable_link finds it absent again.
C33_Witness ==
    /\ req.op = "get_shareable_link"
    /\ ExpiredAt(data, clock, req.link_id)
    /\ MockLink(req.link_id).access_count >= 1
    /\ Fromisoformat(MockLink(req.link_id).updated_at)
          > Fromisoformat(MockLink(req.link_id).expires_at)
    /\ ret.mock = NoneVal

(***************************************************************************)
(* SpecCount: a link to a photo whose owner may have no user row, followed *)
(* by visitors.                                                            *)
(***************************************************************************)
NextCount ==
    \/ LinkTick
    \/ \E user_data \in ProfileUserInputs, uuid \in UuidPool(CrudUuids) :
          /\ NumRows("USER") = 0
          /\ CreateUser(user_data, uuid)
    \/ \E photo_data \in PhotoInputs, photo_id \in NextUuid(ShareUuids) :
          /\ MockPhotoIds = {}
          /\ CreatePhoto(photo_data, photo_id)
    \/ \E link_data \in DelLinkInputs, link_id \in NextUuid(ShareUuids) :
          /\ issued = {}
          /\ CreateShareableLink(link_data, link_id, 0)
    \/ \E c \in Callers, link_id \in LinkIdInputs : get_shared_photo(c, link_id)
    \/ \E c \in Callers : SharedPhotoApply(c)

SpecCount == Init /\ [][NextCount]_vars

\* C34: a get_shared_photo request that ends in an error (link absent or
\* expired, photo not found, photo owner not found) leaves every link's
\* access_count unchanged, so that a link's access_count is the number of
\* requests for it that returned the photo.
C34_ErrorsNotCounted ==
    [][(req'.op = "get_shared_photo" /\ pc' # pc /\ ret'.mock.tag = "raise")
          => \A link_id \in IssuedIds :
                DictGet(data', S_SHARE_LINK \o link_id).access_count
                   = MockLink(link_id).access_count]_vars

\* C35: in the durable backend, under every interleaving of get_shared_photo
\* requests with the table's time-to-live removal, every row under a
\* SHARE_LINK# primary key carries link_id, photo_id, user_id and
\* expires_at: the increment that follows the validity check never writes a
\* partial row for a link removed in between.
C35_LinkRowsWhole ==
    \A x \in table :
       StartsWith(x.PK, S_SHARE_LINK) =>
          {"link_id", "photo_id", "user_id", "expires_at"} \subseteq DOMAIN x

\* C36: in the durable backend a share link is eligible for time-to-live
\* removal (the current epoch second is at or past its ttl_epoch) only at
\* times at which get_shareable_link already returns absent for it: the
\* removal never takes a link that would still be returned.
C36_EligibleOnlyExpired ==
    \A x \in table :
       ("ttl_epoch" \in DOMAIN x /\ clock \div SubSec >= x.ttl_epoch)
          => DynGetShareableLink(table, x.link_id, clock) = NoneVal

(***************************************************************************)
(* SpecLogin: first logins only.  Concurrent get_current_user_profile      *)
(* requests for a user not yet stored; every user row of the table was     *)
(* written by one of the requests and returned to it.                      *)
(***************************************************************************)
NextLogin ==
    \/ ProfileTick
    \/ \E c \in Callers, current_user \in ProfileUsers : ProfileCall(c, current_user)
    \/ \E c \in Callers : ProfileCreate(c)

SpecLogin == Init /\ [][NextLogin]_vars

\* C37: two concurrent first-login requests for the same user leave exactly
\* one row for the user, and the created_at of that row is the created_at
\* returned to each request: a request that finishes never changes the
\* created_at of the row an earlier request stored and was answered with.
C37_OneCreatedAt ==
    [][(req'.op = "profile_create_user" /\ pc' # pc) =>
          /\ Cardinality(DynRowsOf(table', S_USER)) = 1
          /\ \A x \in DynRowsOf(table, S_USER) : \A y \in DynRowsOf(table', S_USER) :
                y.PK = x.PK => y.created_at = x.created_at]_vars

(***************************************************************************)
(* SpecCreate: photos, comments and share links created one after another, *)
(* and delete_photo, which only SimpleDynamoDBService defines.             *)
(***************************************************************************)
NextCreate ==
    \/ \E photo_data \in PhotoInputs, photo_id \in NextUuid(CreateUuids) :
          /\ Len(data) < CreateRows
          /\ CreatePhoto(photo_data, photo_id)
    \/ \E comment_data \in DelCommentInputs, comment_id \in NextUuid(CreateUuids) :
          /\ Len(data) < CreateRows
          /\ CreateComment(comment_data, comment_id)
    \/ \E link_data \in DelLinkInputs, link_id \in NextUuid(CreateUuids) :
          /\ Len(data) < CreateRows
          /\ CreateShareableLink(link_data, link_id, 0)
    \/ \E photo_id \in StoredPhotoIds : DeletePhoto(photo_id)

SpecCreate == Init /\ [][NextCreate]_vars

CreateOps == {"create_photo", "create_comment", "create_shareable_link"}

KindPrefix(op) ==
    IF op = "create_photo" THEN S_PHOTO
    ELSE IF op = "create_comment" THEN S_COMMENT
    ELSE S_SHARE_LINK

\* C38: in the in-memory store each create_photo, create_comment and
\* create_shareable_link adds exactly one row, under a key the store did not
\* hold, and leaves every row already stored as it was; the number of rows
\* of the created kind grows by one and that of every other kind stays.  No
\* other operation changes the store (the service has no delete that
\* succeeds), so the rows of a kind number its creates minus its deletes.
C38_CreateAddsOne ==
    [][IF req'.op \in CreateOps
       THEN /\ Len(data') = Len(data) + 1
            /\ SubSeq(data', 1, Len(data)) = data
            /\ data'[Len(data')].key \notin DictKeys(data)
            /\ data'[Len(data')].item = ret'.mock.val
            /\ \A prefix \in {S_USER, S_PHOTO, S_COMMENT, S_SHARE_LINK} :
                  Cardinality(MockRowsOf(data', prefix))
                     = Cardinality(MockRowsOf(data, prefix))
                          + (IF prefix = KindPrefix(req'.op) THEN 1 ELSE 0)
       ELSE data' = data]_vars

\* Two photos, a comment and a share link are stored, the link created last.
C38_Witness ==
    /\ req.op = "create_shareable_link"
    /\ Cardinality(MockRowsOf(data, S_PHOTO)) = 2
    /\ Cardinality(MockRowsOf(data, S_COMMENT)) = 1
    /\ Cardinality(MockRowsOf(data, S_SHARE_LINK)) = 1
    /\ ret.mock.tag = "some"
    /\ data[Len(data)].item = ret.mock.val

====
